---- MODULE Spec2Model ----
(***************************************************************************)
(* Model of two components of TensorArtist's human-preference example:     *)
(*   - HPA3CTrainer.train, the event-driven training loop whose steps are  *)
(*     gated on the preference collector's readiness                       *)
(*     (examples/human-preference/libhpref/train.py);                      *)
(*   - TrajectoryPairPool, the bounded priority pool of trajectory pairs   *)
(*     (examples/human-preference/libhpref/pcollector.py).                 *)
(*   - PreferenceCollector, which cuts videos out of the workers' frames,  *)
(*     pairs them, pushes the pairs to the pool and records preferences    *)
(*     (examples/human-preference/libhpref/pcollector.py).                 *)
(* TrainSpec drives the trainer, PoolSpec the pool, CollectorSpec the      *)
(* collector together with its pool.                                       *)
(***************************************************************************)
EXTENDS Integers, Sequences, FiniteSets, TLC

VARIABLES
    \* ---- HPA3CTrainer ----
    pc,             \* the statement of train() that runs next
    runtime,        \* self.runtime: a dict, keys "iter" and "zero_iter"
    nr_iters,       \* self.nr_iters
    epoch_size,     \* self.epoch_size
    stop_signal,    \* self.stop_signal
    nr_skipped,     \* number of loop passes whose readiness check said no
    trace,          \* everything train() did so far, in order
    iter_preset,    \* runtime held an 'iter' when train() was called
    \* ---- TrajectoryPairPool ----
    data_pool,          \* self._data_pool: the SortedList, ascending
    data_pool_counter,  \* next value of self._data_pool_counter
    data_pool_lock,     \* self._data_pool_lock is held
    maxlen,             \* self._maxlen
    nr_pushed,          \* number of pairs handed to push so far
    nr_uids,            \* number of uuid4 identifiers drawn so far
    disk,               \* the trajectory directories written by _process
    last_op,            \* the last pool call that returned
    ret,                \* what that call returned (pop), or evicted (push)
    popped_any,         \* some pop has been called since construction
    pops_in_row,        \* pops that returned a pair since the last push
    pushed,             \* every wrapper push has built, in push order
    \* ---- PreferenceCollector ----
    video_length,       \* self._video_length
    window_length,      \* self._window_length
    data_buffer,        \* self._data_buffer: worker -> deque of frames
    nr_posted,          \* worker -> number of frames it has posted
    pair_buffer,        \* self._pair_buffer
    videos,             \* every extraction _try_post_video has made, in order
    pair_sides,         \* the two sides and the priority of every pair pushed
    pref_files,         \* the pref.txt files on disk
    training_data,      \* what the reward predictor has been handed
    pref_log,           \* the steps of the last post_preference call
    \* ---- _Environ, with_env ----
    envs,               \* env.envs of the module's _Environ object, as path -> node
    last_call,          \* the last call on the store and what it returned
    in_block,           \* execution is inside a with_env block
    backup,             \* with_env's local variable backup
    env_before,         \* the store's content when the block was entered
    \* ---- EnvBox ----
    box_pc,             \* how far the EnvBox has got
    box_env,            \* self._env
    box_seed,           \* self.__seed
    env_name,           \* the object the child's module global `env` names
    rng_seed,           \* the seed the child's generator was last reset with
    \* ---- MoveRightRLEnviron and its proxies ----
    rl_size,            \* MoveRightRLEnviron._size
    rl_pos,             \* MoveRightRLEnviron._pos
    rl_limit,           \* LimitLengthProxyRLEnviron._limit
    rl_cnt,             \* LimitLengthProxyRLEnviron._cnt
    rl_steps,           \* number of action calls made so far
    rl_trace,           \* the action calls made since the last restart call
    \* ---- AutoRestartProxyRLEnviron over any environment ----
    ar_over,            \* the wrapped environment's episode has reported is_over
    ar_calls,           \* the calls made on the wrapped environment, in order
    ar_rets,            \* per action call: what the inner action and the proxy returned
    \* ---- A3CTrainerEnv queues ----
    batch_size,             \* get_env('trainer.batch_size')
    length_factor,          \* the stored a3c.data_queue_length_factor, None if unset
    data_queue,             \* self._data_queue, oldest first
    data_queue_maxsize,     \* the maxsize it was built with
    dq_pending,             \* producer -> it is inside a put() call
    dq_next,                \* number of the next sample enqueued
    dq_got,                 \* the samples get() has returned, in order
    predictors_queue,           \* self._predictors_queue, oldest first
    predictors_queue_maxsize,   \* the maxsize it was built with
    pq_next,                    \* number of the next prediction request
    \* ---- SummaryHistoryManager, the entries of one key ----
    summaries,              \* self._summaries[key]
    summaries_type,         \* self._summaries_type[key], "unknown" when absent
    summaries_last_query,   \* self._summaries_last_query[key], 0 when absent
    summary_call,           \* the last call on the manager and its outcome
    epoch_pc,               \* where the epoch-end handler stands for the key
    epoch_included,         \* index of a value -> number of epoch averages it was in
    \* ---- fetch_variable, fetch_variables ----
    var_value,          \* the session's value of each variable, None if uninitialized
    fetch_call,         \* the last fetch call: its session.run log and its outcome
    \* ---- image_grid ----
    grid_images,        \* all_images, as the sequence of their shapes
    grid_desc,          \* grid_desc
    grid_result,        \* what the last image_grid call returned
    \* ---- _try_post_pair, thread by thread ----
    pair_mutex,         \* the thread holding self._pair_mutex
    tpp_pc,             \* thread -> where it stands in _try_post_pair
    tpp_window,         \* thread -> the sub-window it is posting
    tpp_order,          \* the sub-windows in the order their threads got the mutex
    tpp_pairs,          \* the pairs pushed, as the two sub-windows of each
    nr_windows,         \* number of sub-windows extracted so far
    \* ---- A3CTrainerEnv.initialize_all_peers ----
    peers_pc,           \* the statement of initialize_all_peers to run next
    nr_players,         \* get_env('a3c.nr_players')
    nr_predictors,      \* get_env('a3c.nr_predictors')
    players_router,     \* self._players_router: handlers, initialized, conn_info
    players,            \* self._players: each one's request endpoint and whether started
    predictors,         \* self._predictors: whether each thread was started
    \* ---- the collector's two locks, thread by thread ----
    web_pc,             \* where the web thread stands in pool.pop
    lk_evicted,         \* insertion counters of the pairs push has evicted
    lk_returned,        \* insertion counters of the pairs pop has returned, in order
    lk_raised,          \* insertion counters of the pairs whose _process raised
    lk_pops             \* number of pop calls made

trainVars == <<pc, runtime, nr_iters, epoch_size, stop_signal, nr_skipped, trace,
               iter_preset>>
poolVars == <<data_pool, data_pool_counter, data_pool_lock, maxlen, nr_pushed,
              nr_uids, disk, last_op, ret, popped_any, pops_in_row, pushed>>
collectorVars == <<video_length, window_length, data_buffer, nr_posted, pair_buffer,
                   videos, pair_sides, pref_files, training_data, pref_log>>
envVars == <<envs, last_call, in_block, backup, env_before>>
boxVars == <<box_pc, box_env, box_seed, env_name, rng_seed>>
rlVars == <<rl_size, rl_pos, rl_limit, rl_cnt, rl_steps, rl_trace>>
arVars == <<ar_over, ar_calls, ar_rets>>
queueVars == <<batch_size, length_factor, data_queue, data_queue_maxsize, dq_pending, dq_next, dq_got,
               predictors_queue, predictors_queue_maxsize, pq_next>>
summaryVars == <<summaries, summaries_type, summaries_last_query, summary_call,
                 epoch_pc, epoch_included>>
fetchVars == <<var_value, fetch_call>>
gridVars == <<grid_images, grid_desc, grid_result>>
pairVars == <<pair_mutex, tpp_pc, tpp_window, tpp_order, tpp_pairs, nr_windows>>
\* The components of the later sections.
peersVars == <<peers_pc, nr_players, nr_predictors, players_router, players, predictors>>
lockVars == <<web_pc, lk_evicted, lk_returned, lk_raised, lk_pops>>
auxVars == <<arVars, queueVars, summaryVars, fetchVars, gridVars, pairVars, peersVars, lockVars>>
vars == <<trainVars, poolVars, collectorVars, envVars, boxVars, rlVars, auxVars>>

\* ------------------------------------------------------------------ bounds
MaxIters == 3
MaxEpochSize == 2
MaxSkips == 2
MaxLen == 4
MaxPushes == 4
MaxPriority == 2
MaxWindow == 3
MaxVariance == 1
MaxPosts == 5
MaxPrefs == 1
MaxPairs == 2
MaxValue == 1
MaxSeed == 2
MaxSize == 5
MaxLimit == 4
MaxSteps == 5
MaxBatch == 2
MaxFactor == 2
MaxSamples == 17
MaxRequests == 6
MaxSummaryValue == 2
MaxSummaryLen == 4
MaxTopK == 5
MaxImages == 6
MaxDim == 2
MaxCount == 3
MaxAxes == 2
MaxWindows == 4
MaxPlayers == 3
MaxPredictors == 2
MaxPorts == 2
MaxPops == 2
MaxFairWindows == 2

\* ================================================================ trainer

\* dict.setdefault(key, value)
setdefault(d, k, v) == IF k \in DOMAIN d THEN d ELSE d @@ (k :> v)

\* d[key] = value
setitem(d, k, v) == [x \in DOMAIN d \cup {k} |-> IF x = k THEN v ELSE d[x]]

EmptyDict == [x \in {} |-> 0]

\* The events of one iteration of the base trainer: epoch:before at the first
\* iteration of an epoch, iter:before, the optimization step, iter:after, and
\* epoch:after at the last iteration of an epoch.
TrainerBase_wrapped_run_step(it, es) ==
    (IF (it - 1) % es = 0 THEN <<"epoch:before">> ELSE <<>>)
    \o <<"iter:before", "run_step", "iter:after">>
    \o (IF it % es = 0 THEN <<"epoch:after">> ELSE <<>>)

\* The call of ready_for_step and its answer, as the trace records it.
ReadyForStep(ready) == IF ready THEN "ready_for_step:True" ELSE "ready_for_step:False"

\* Variant: the step runs whatever the readiness check answers.
HPA3CTrainer_wrapped_run_step_Ungated(ready, it, es) ==
    [fired |-> <<ReadyForStep(ready)>> \o TrainerBase_wrapped_run_step(it, es),
     succ |-> ready]

\* HPA3CTrainer._wrapped_run_step: what it fires and what it returns, given the
\* answer of pcollector.ready_for_step(self.epoch).
HPA3CTrainer_wrapped_run_step(ready, it, es) ==
    IF ready
    THEN [fired |-> <<ReadyForStep(ready)>> \o TrainerBase_wrapped_run_step(it, es),
          succ |-> TRUE]
    ELSE [fired |-> <<ReadyForStep(ready)>>, succ |-> FALSE]

\* Variant: the dry run asks the collector first.
DryRunChecksReadiness ==
    [fired |-> <<ReadyForStep(TRUE), "epoch:before", "iter:before", "iter:after", "epoch:after">>,
     succ |-> TRUE]

\* The iter == 0 branch of the loop body.
DryRun ==
    [fired |-> <<"epoch:before", "iter:before", "iter:after", "epoch:after">>,
     succ |-> TRUE]

\* Variant: iter += 2.
AdvanceTwice(rt, step_succ) ==
    IF step_succ
    THEN setitem(setitem(rt, "iter", rt["iter"] + 2), "zero_iter", FALSE)
    ELSE rt

\* Variant: iter advances whether or not the step succeeded.
AdvanceAlways(rt, step_succ) ==
    setitem(setitem(rt, "iter", rt["iter"] + 1), "zero_iter", FALSE)

\* if step_succ: iter += 1; zero_iter = False
Advance(rt, step_succ) ==
    IF step_succ
    THEN setitem(setitem(rt, "iter", rt["iter"] + 1), "zero_iter", FALSE)
    ELSE rt

\* Variant: the loop condition does not look at the stop signal.
LoopConditionIgnoresStop == runtime["iter"] <= nr_iters

\* while self.runtime['iter'] <= self.nr_iters and not self.stop_signal
LoopCondition == runtime["iter"] <= nr_iters /\ ~stop_signal

TrainerInit ==
    /\ pc = "start"
    /\ runtime \in {EmptyDict} \cup {("iter" :> k) : k \in 0..(MaxIters + 1)}
    /\ nr_iters \in 0..MaxIters
    /\ epoch_size \in 1..MaxEpochSize
    /\ stop_signal = FALSE
    /\ nr_skipped = 0
    /\ trace = <<>>
    /\ iter_preset = ("iter" \in DOMAIN runtime)

TriggerInitializationBefore ==
    /\ pc = "start"
    /\ trace' = Append(trace, "initialization:before")
    /\ pc' = "initialize"
    /\ UNCHANGED <<runtime, nr_iters, epoch_size, stop_signal, nr_skipped, iter_preset>>

Initialize ==
    /\ pc = "initialize"
    /\ trace' = Append(trace, "initialize()")
    /\ pc' = "initialization:after"
    /\ UNCHANGED <<runtime, nr_iters, epoch_size, stop_signal, nr_skipped, iter_preset>>

TriggerInitializationAfter ==
    /\ pc = "initialization:after"
    /\ trace' = Append(trace, "initialization:after")
    /\ runtime' = setdefault(runtime, "iter", 0)
    /\ pc' = "optimization:before"
    /\ UNCHANGED <<nr_iters, epoch_size, stop_signal, nr_skipped, iter_preset>>

TriggerOptimizationBefore ==
    /\ pc = "optimization:before"
    /\ trace' = Append(trace, "optimization:before")
    /\ runtime' = setitem(runtime, "zero_iter", TRUE)
    /\ pc' = "loop"
    /\ UNCHANGED <<nr_iters, epoch_size, stop_signal, nr_skipped, iter_preset>>

\* One pass of the while loop with iter == 0.
DryRunPass ==
    /\ pc = "loop"
    /\ LoopCondition
    /\ runtime["iter"] = 0
    /\ trace' = trace \o DryRun.fired
    /\ runtime' = Advance(runtime, DryRun.succ)
    /\ UNCHANGED <<pc, nr_iters, epoch_size, stop_signal, nr_skipped, iter_preset>>

\* One pass of the while loop with iter != 0.
StepPass ==
    /\ pc = "loop"
    /\ LoopCondition
    /\ runtime["iter"] # 0
    /\ \E ready \in BOOLEAN :
        LET r == HPA3CTrainer_wrapped_run_step(ready, runtime["iter"], epoch_size) IN
        /\ ready \/ nr_skipped < MaxSkips
        /\ trace' = trace \o r.fired
        /\ runtime' = Advance(runtime, r.succ)
        /\ nr_skipped' = IF ready THEN nr_skipped ELSE nr_skipped + 1
    /\ UNCHANGED <<pc, nr_iters, epoch_size, stop_signal, iter_preset>>

\* Variant: a pass whose readiness check answers true and whose step is
\* skipped all the same.
ReadyPassSkipsStep ==
    /\ pc = "loop"
    /\ LoopCondition
    /\ runtime["iter"] # 0
    /\ LET r == HPA3CTrainer_wrapped_run_step(FALSE, runtime["iter"], epoch_size) IN
        /\ trace' = IF nr_skipped < MaxSkips THEN trace \o r.fired ELSE trace
        /\ runtime' = Advance(runtime, r.succ)
        /\ nr_skipped' = IF nr_skipped < MaxSkips THEN nr_skipped + 1 ELSE nr_skipped
    /\ UNCHANGED <<pc, nr_iters, epoch_size, stop_signal, iter_preset>>

\* One pass of the while loop with iter != 0 in which ready_for_step answers
\* true.
ReadyPass ==
    /\ pc = "loop"
    /\ LoopCondition
    /\ runtime["iter"] # 0
    /\ LET r == HPA3CTrainer_wrapped_run_step(TRUE, runtime["iter"], epoch_size) IN
        /\ trace' = trace \o r.fired
        /\ runtime' = Advance(runtime, r.succ)
    /\ UNCHANGED <<pc, nr_iters, epoch_size, stop_signal, nr_skipped, iter_preset>>

\* One pass of the while loop with iter != 0 in which ready_for_step answers
\* false, any number of times; the trace keeps the first MaxSkips of them, and
\* such a pass changes nothing else.
SkippedPass ==
    /\ pc = "loop"
    /\ LoopCondition
    /\ runtime["iter"] # 0
    /\ LET r == HPA3CTrainer_wrapped_run_step(FALSE, runtime["iter"], epoch_size) IN
        /\ trace' = IF nr_skipped < MaxSkips THEN trace \o r.fired ELSE trace
        /\ runtime' = Advance(runtime, r.succ)
        /\ nr_skipped' = IF nr_skipped < MaxSkips THEN nr_skipped + 1 ELSE nr_skipped
    /\ UNCHANGED <<pc, nr_iters, epoch_size, stop_signal, iter_preset>>

\* Variant: optimization:after fired inside the while loop.
TriggerOptimizationAfterInsideLoop ==
    /\ pc = "loop"
    /\ trace' = Append(trace, "optimization:after")
    /\ pc' = IF LoopCondition THEN "loop" ELSE "finalization:begin"
    /\ UNCHANGED <<runtime, nr_iters, epoch_size, stop_signal, nr_skipped, iter_preset>>

\* The loop condition fails: optimization:after.
TriggerOptimizationAfter ==
    /\ pc = "loop"
    /\ ~LoopCondition
    /\ trace' = Append(trace, "optimization:after")
    /\ pc' = "finalization:begin"
    /\ UNCHANGED <<runtime, nr_iters, epoch_size, stop_signal, nr_skipped, iter_preset>>

TriggerFinalizationBegin ==
    /\ pc = "finalization:begin"
    /\ trace' = Append(trace, "finalization:begin")
    /\ pc' = "finalize"
    /\ UNCHANGED <<runtime, nr_iters, epoch_size, stop_signal, nr_skipped, iter_preset>>

Finalize ==
    /\ pc = "finalize"
    /\ trace' = Append(trace, "finalize()")
    /\ pc' = "finalization:after"
    /\ UNCHANGED <<runtime, nr_iters, epoch_size, stop_signal, nr_skipped, iter_preset>>

TriggerFinalizationAfter ==
    /\ pc = "finalization:after"
    /\ trace' = Append(trace, "finalization:after")
    /\ pc' = "done"
    /\ UNCHANGED <<runtime, nr_iters, epoch_size, stop_signal, nr_skipped, iter_preset>>

\* An event handler (or another thread) raises the stop signal.
SetStopSignal ==
    /\ pc # "done"
    /\ ~stop_signal
    /\ stop_signal' = TRUE
    /\ UNCHANGED <<pc, runtime, nr_iters, epoch_size, nr_skipped, trace, iter_preset>>

\* ==================================================== TrajectoryPairPool

\* Python's None; an optional value is <<>> or <<v>>.
None == <<>>

NoReturn == [uid |-> None, pair |-> None, entry |-> None, evicted |-> None, wrapped |-> None]

\* _TrajectoryPairWrapper(priority, count, pair); the pair keeps its
\* observations until _process drops them.
TrajectoryPair(id) == [id |-> id, observations |-> TRUE]

Wrapper(priority, count, pair) == [priority |-> priority, count |-> count, pair |-> pair]

\* Tuple comparison of two wrappers: priority first, then the counter (the
\* counter is unique, so the pair itself is never compared).
WrapperLess(a, b) ==
    \/ a.priority < b.priority
    \/ a.priority = b.priority /\ a.count < b.count

\* SortedList.add: insert to the right of every element that is not greater.
SortedList_add(s, e) ==
    LET k == Cardinality({i \in 1..Len(s) : ~WrapperLess(e, s[i])}) IN
    SubSeq(s, 1, k) \o <<e>> \o SubSeq(s, k + 1, Len(s))

\* SortedList.pop(0): the list without its first element.
SortedList_pop_first(s) == SubSeq(s, 2, Len(s))

\* Variant: the last element is read but stays in the list.
SortedList_pop_lastKeeps(s) == s

\* SortedList.pop(): the list without its last element.
SortedList_pop_last(s) == SubSeq(s, 1, Len(s) - 1)

\* Variant: pop() instead of pop(0), evicting the greatest entry.
PushBodyEvictLast(pool, wrapped, cap) ==
    LET added == SortedList_add(pool, wrapped) IN
    IF Len(added) = cap
    THEN [pool |-> SortedList_pop_last(added), evicted |-> <<added[Len(added)]>>]
    ELSE [pool |-> added, evicted |-> <<>>]

\* The body of push under the lock: the pool after the call and what it evicted.
PushBody(pool, wrapped, cap) ==
    LET added == SortedList_add(pool, wrapped) IN
    IF Len(added) = cap
    THEN [pool |-> SortedList_pop_first(added), evicted |-> <<added[1]>>]
    ELSE [pool |-> added, evicted |-> <<>>]

\* _process: draw a fresh uid, write the two GIFs and pair.pkl, and return
\* the uid with the pair stripped of its observations.
process(pair, uids) ==
    LET uid == uids + 1
        cleaned == [pair EXCEPT !.observations = FALSE] IN
    [uid |-> uid, pair |-> cleaned,
     written |-> [uid |-> uid, gifs |-> pair.observations, pkl |-> cleaned]]

\* Variant: pop(0) instead of pop(), returning the smallest entry.
PopBodyFirst(pool, uids) ==
    IF Len(pool) = 0
    THEN [pool |-> pool, uid |-> None, pair |-> None, entry |-> None, written |-> {}]
    ELSE LET r == process(pool[1].pair, uids) IN
         [pool |-> SortedList_pop_first(pool), uid |-> <<r.uid>>, pair |-> <<r.pair>>,
          entry |-> <<pool[1]>>, written |-> {r.written}]

\* The body of pop under the lock.
PopBody(pool, uids) ==
    IF Len(pool) = 0
    THEN [pool |-> pool, uid |-> None, pair |-> None, entry |-> None, written |-> {}]
    ELSE LET r == process(pool[Len(pool)].pair, uids) IN
         [pool |-> SortedList_pop_last(pool), uid |-> <<r.uid>>, pair |-> <<r.pair>>,
          entry |-> <<pool[Len(pool)]>>, written |-> {r.written}]

\* TrajectoryPairPool(maxlen)
PoolInit ==
    /\ data_pool = <<>>
    /\ data_pool_counter = 0
    /\ data_pool_lock = FALSE
    /\ maxlen \in 0..MaxLen
    /\ nr_pushed = 0
    /\ nr_uids = 0
    /\ disk = {}
    /\ last_op = "none"
    /\ ret = NoReturn
    /\ popped_any = FALSE
    /\ pops_in_row = 0
    /\ pushed = <<>>

\* push(..., priority): the whole call, lock acquired on entry and released
\* when the with-block is left.
push ==
    /\ ~data_pool_lock
    /\ nr_pushed < MaxPushes
    /\ \E priority \in 0..MaxPriority :
        LET wrapped == Wrapper(priority, data_pool_counter, TrajectoryPair(nr_pushed + 1))
            r == PushBody(data_pool, wrapped, maxlen) IN
        /\ data_pool' = r.pool
        /\ ret' = [NoReturn EXCEPT !.evicted = r.evicted, !.wrapped = <<wrapped>>]
        /\ pushed' = Append(pushed, wrapped)
    /\ data_pool_counter' = data_pool_counter + 1
    /\ nr_pushed' = nr_pushed + 1
    /\ data_pool_lock' = FALSE
    /\ last_op' = "push"
    /\ pops_in_row' = 0
    /\ UNCHANGED <<maxlen, nr_uids, disk, popped_any>>

\* Variant: the early return on an empty pool leaves the lock held.
popKeepsLockWhenEmpty ==
    /\ ~data_pool_lock
    /\ LET r == PopBody(data_pool, nr_uids) IN
        /\ data_pool' = r.pool
        /\ ret' = [NoReturn EXCEPT !.uid = r.uid, !.pair = r.pair, !.entry = r.entry]
        /\ nr_uids' = nr_uids + Len(r.uid)
        /\ disk' = disk \cup r.written
        /\ pops_in_row' = pops_in_row + Len(r.uid)
    /\ data_pool_lock' = (Len(data_pool) = 0)
    /\ last_op' = "pop"
    /\ popped_any' = TRUE
    /\ UNCHANGED <<data_pool_counter, maxlen, nr_pushed, pushed>>

\* pop(): the whole call, lock acquired on entry and released on either return.
pop ==
    /\ ~data_pool_lock
    /\ LET r == PopBody(data_pool, nr_uids) IN
        /\ data_pool' = r.pool
        /\ ret' = [NoReturn EXCEPT !.uid = r.uid, !.pair = r.pair, !.entry = r.entry]
        /\ nr_uids' = nr_uids + Len(r.uid)
        /\ disk' = disk \cup r.written
        /\ pops_in_row' = pops_in_row + Len(r.uid)
    /\ data_pool_lock' = FALSE
    /\ last_op' = "pop"
    /\ popped_any' = TRUE
    /\ UNCHANGED <<data_pool_counter, maxlen, nr_pushed, pushed>>

\* =================================================== PreferenceCollector

\* The identifiers of the rollout workers.
Workers == {"w1", "w2"}

\* The preferences a labeller can submit.
Prefs == {0, 1}

\* The tuple post_state appends: (state, observation, action, variance). The
\* state, observation and action of a frame are identified by the worker and
\* the ordinal of the frame among that worker's posts.
Frame(w, k, variance) == [worker |-> w, idx |-> k, variance |-> variance]

\* collections.deque(maxlen=n).append(x)
deque_append(d, x, n) ==
    IF n = 0 THEN d
    ELSE IF Len(d) = n THEN Tail(d) \o <<x>>
    ELSE Append(d, x)

\* for i in range(self._video_length): current_sum += data[i][-1]
RECURSIVE FirstSum(_, _)
FirstSum(data, n) == IF n = 0 THEN 0 ELSE FirstSum(data, n - 1) + data[n].variance

\* The scan of _try_post_video from index i (0-based, as in the code) on:
\* cur is current_sum, best is (max_sum, max_idx).
RECURSIVE Scan(_, _, _, _, _, _)
Scan(data, V, W, i, cur, best) ==
    IF i >= W THEN best
    ELSE LET c == cur - data[(i - V) + 1].variance + data[i + 1].variance IN
         Scan(data, V, W, i + 1, c,
              IF c > best.max_sum THEN [max_sum |-> c, max_idx |-> i - V] ELSE best)

\* Variant: the extracted frames are read but stay in the deque.
try_post_videoKeepsFrames(data, V, W) ==
    LET first == FirstSum(data, V)
        best == Scan(data, V, W, V, first, [max_sum |-> first, max_idx |-> 0])
    IN  [window |-> data,
         max_idx |-> best.max_idx,
         frames |-> SubSeq(data, best.max_idx + 1, best.max_idx + V),
         variance |-> best.max_sum,
         remaining |-> data]

\* _try_post_video on a full buffer: the frames extracted, the variance handed
\* to _try_post_pair, and what is left in the deque.
try_post_video(data, V, W) ==
    LET first == FirstSum(data, V)
        best == Scan(data, V, W, V, first, [max_sum |-> first, max_idx |-> 0])
    IN  [window |-> data,
         max_idx |-> best.max_idx,
         frames |-> SubSeq(data, best.max_idx + 1, best.max_idx + V),
         variance |-> best.max_sum,
         remaining |-> SubSeq(data, best.max_idx + V + 1, Len(data))]

\* _try_post_pair under the pair mutex: the pair buffer afterwards and the
\* pair to push, if the buffer reached two entries.
try_post_pair(buffer, video) ==
    LET b == Append(buffer, [frames |-> video.frames, variance |-> video.variance]) IN
    IF Len(b) = 2
    THEN [buffer |-> <<>>,
          pair |-> <<[t1 |-> b[1].frames, t2 |-> b[2].frames,
                      priority |-> b[1].variance + b[2].variance]>>]
    ELSE [buffer |-> b, pair |-> <<>>]

\* PreferenceCollector(rpredictor, web_configs, video_length, window_length, pool_size)
CollectorInit ==
    /\ window_length \in 1..MaxWindow
    /\ video_length \in 1..window_length
    /\ data_buffer = [w \in Workers |-> <<>>]
    /\ nr_posted = [w \in Workers |-> 0]
    /\ pair_buffer = <<>>
    /\ videos = <<>>
    /\ pair_sides = <<>>
    /\ pref_files = {}
    /\ training_data = <<>>
    /\ pref_log = <<>>

\* self._pool.push(..., priority), called from _try_post_pair.
pool_push(priority) ==
    LET wrapped == Wrapper(priority, data_pool_counter, TrajectoryPair(nr_pushed + 1))
        r == PushBody(data_pool, wrapped, maxlen) IN
    /\ ~data_pool_lock
    /\ data_pool' = r.pool
    /\ ret' = [NoReturn EXCEPT !.evicted = r.evicted, !.wrapped = <<wrapped>>]
    /\ pushed' = Append(pushed, wrapped)
    /\ data_pool_counter' = data_pool_counter + 1
    /\ nr_pushed' = nr_pushed + 1
    /\ data_pool_lock' = FALSE
    /\ last_op' = "push"
    /\ pops_in_row' = 0
    /\ UNCHANGED <<maxlen, nr_uids, disk, popped_any>>

\* post_state(identifier, state, observation, action, variance): the whole
\* call, down to the push of a completed pair.
post_state ==
    /\ nr_posted["w1"] + nr_posted["w2"] < MaxPosts
    /\ \E w \in Workers, variance \in 0..MaxVariance :
        LET data == deque_append(data_buffer[w], Frame(w, nr_posted[w] + 1, variance),
                                 window_length)
            full == Len(data) = window_length
            video == try_post_video(data, video_length, window_length)
            paired == try_post_pair(pair_buffer, video)
        IN  /\ nr_posted' = [nr_posted EXCEPT ![w] = @ + 1]
            /\ IF full
               THEN /\ data_buffer' = [data_buffer EXCEPT ![w] = video.remaining]
                    /\ videos' = Append(videos, [window |-> video.window,
                                                 frames |-> video.frames,
                                                 variance |-> video.variance])
                    /\ pair_buffer' = paired.buffer
                    /\ IF paired.pair # <<>>
                       THEN /\ pool_push(paired.pair[1].priority)
                            /\ pair_sides' = Append(pair_sides, paired.pair[1])
                       ELSE UNCHANGED <<poolVars, pair_sides>>
               ELSE /\ data_buffer' = [data_buffer EXCEPT ![w] = data]
                    /\ UNCHANGED <<videos, pair_buffer, pair_sides, poolVars>>
    /\ UNCHANGED <<video_length, window_length, pref_files, training_data, pref_log>>

\* TrainingData(pair.t1_state, pair.t1_action, pair.t2_state, pair.t2_action, pref)
TrainingData(pair, pref) == [pair |-> pair, pref |-> pref]

\* Variant: the example is handed to the reward predictor before the
\* preference is written.
PostPreferenceAddsFirst(files, prefs, data, uid, pref, fail) ==
    LET found == {r \in files : r.uid = uid} IN
    IF fail = "load" \/ found = {}
    THEN [pref_files |-> prefs, training_data |-> data, log |-> <<"load:raise">>]
    ELSE LET pair == (CHOOSE r \in found : TRUE).pkl IN
         IF fail = "dump"
         THEN [pref_files |-> prefs,
               training_data |-> Append(data, TrainingData(pair, pref)),
               log |-> <<"load:ok", "add_training_data", "dump:raise">>]
         ELSE [pref_files |-> {f \in prefs : f.uid # uid} \cup {[uid |-> uid, pref |-> pref]},
               training_data |-> Append(data, TrainingData(pair, pref)),
               log |-> <<"load:ok", "add_training_data", "dump:ok">>]

\* The body of post_preference: io.load of pair.pkl, io.dump of pref.txt, then
\* add_training_data; an exception of load or dump (fail says which one the
\* file system refuses; load also fails when the uid has no directory) leaves
\* the call there.
PostPreference(files, prefs, data, uid, pref, fail) ==
    LET found == {r \in files : r.uid = uid} IN
    IF fail = "load" \/ found = {}
    THEN [pref_files |-> prefs, training_data |-> data, log |-> <<"load:raise">>]
    ELSE LET pair == (CHOOSE r \in found : TRUE).pkl IN
         IF fail = "dump"
         THEN [pref_files |-> prefs, training_data |-> data,
               log |-> <<"load:ok", "dump:raise">>]
         ELSE [pref_files |-> {f \in prefs : f.uid # uid} \cup {[uid |-> uid, pref |-> pref]},
               training_data |-> Append(data, TrainingData(pair, pref)),
               log |-> <<"load:ok", "dump:ok", "add_training_data">>]

\* post_preference(uid, pref), as the web front end calls it.
post_preference ==
    /\ \E uid \in 1..(nr_uids + 1), pref \in Prefs, fail \in {"none", "load", "dump"} :
        LET r == PostPreference(disk, pref_files, training_data, uid, pref, fail) IN
        /\ Len(r.training_data) <= MaxPrefs
        /\ pref_files' = r.pref_files
        /\ training_data' = r.training_data
        /\ pref_log' = r.log
    /\ UNCHANGED <<video_length, window_length, data_buffer, nr_posted, pair_buffer,
                   videos, pair_sides>>

\* ============================================================== _Environ
\* The nested dict env.envs is kept flat: a function from the key paths that
\* exist to what they hold, a mapping or a value.  A dotted key is the
\* sequence of its subkeys (key.split('.')).

KeyPaths == {<<"x">>, <<"y">>, <<"x", "y">>, <<"x", "z">>, <<"x", "y", "z">>}
Values == {None} \cup {<<n>> : n \in 1..MaxValue}

Dict == [isdict |-> TRUE, val |-> None]
Leaf(v) == [isdict |-> FALSE, val |-> v]

\* dict()
EmptyStore == [p \in {} |-> Dict]

\* subkeys[0:-1], every proper prefix of the key
Prefixes(p) == {SubSeq(p, 1, n) : n \in 1..(Len(p) - 1)}

IsProperPrefix(p, q) == Len(p) < Len(q) /\ SubSeq(q, 1, Len(p)) = p

\* The walk `subkey not in current` meets a value that is no mapping: the
\* membership test on an int or None raises TypeError.
Blocked(e, p) == \E q \in Prefixes(p) : q \in DOMAIN e /\ ~e[q].isdict

\* The walk over subkeys[0:-1]: an absent prefix becomes dict().
Vivify(e, p) ==
    [q \in (DOMAIN e) \cup Prefixes(p) |-> IF q \in DOMAIN e THEN e[q] ELSE Dict]

NoCall == [op |-> "none", key |-> <<>>, arg |-> None, present |-> FALSE,
           ret |-> Leaf(None), raised |-> FALSE]

\* Variant: the default is returned without being stored.
GetReturnsDefaultOnly(e, p, default) ==
    IF Blocked(e, p) THEN [envs |-> e, ret |-> Leaf(None), raised |-> TRUE]
    ELSE LET c == Vivify(e, p) IN
         IF p \in DOMAIN c THEN [envs |-> c, ret |-> c[p], raised |-> FALSE]
         ELSE [envs |-> c, ret |-> Leaf(default), raised |-> FALSE]

\* _Environ.get(key, default): the store afterwards and what is returned (a
\* node: the mapping or value found, or the default).
Get(e, p, default) ==
    IF Blocked(e, p) THEN [envs |-> e, ret |-> Leaf(None), raised |-> TRUE]
    ELSE LET c == Vivify(e, p) IN
         IF p \in DOMAIN c THEN [envs |-> c, ret |-> c[p], raised |-> FALSE]
         ELSE IF default = None THEN [envs |-> c, ret |-> Leaf(default), raised |-> FALSE]
         ELSE [envs |-> [q \in (DOMAIN c) \cup {p} |-> IF q = p THEN Leaf(default) ELSE c[q]],
               ret |-> Leaf(default), raised |-> FALSE]

\* _Environ.has(key): self.get(key, None) is not None
Has(e, p) ==
    LET g == Get(e, p, None) IN
    [envs |-> g.envs, ret |-> g.ret # Leaf(None), raised |-> g.raised]

\* Variant: set with do_replace=False, an existing entry is kept.
SetIfAbsent(e, p, v) ==
    IF Blocked(e, p) THEN [envs |-> e, raised |-> TRUE]
    ELSE LET c == Vivify(e, p) IN
         IF p \in DOMAIN c THEN [envs |-> c, raised |-> FALSE]
         ELSE [envs |-> [q \in (DOMAIN c) \cup {p} |-> IF q = p THEN Leaf(v) ELSE c[q]],
               raised |-> FALSE]

\* _Environ.set(key, value) with do_inc=False, do_replace=True: the entry is
\* assigned, and what hung below a replaced mapping is gone with it.
Set(e, p, v) ==
    IF Blocked(e, p) THEN [envs |-> e, raised |-> TRUE]
    ELSE LET c == Vivify(e, p)
             keep == {q \in DOMAIN c : ~IsProperPrefix(p, q)} IN
         [envs |-> [q \in keep \cup {p} |-> IF q = p THEN Leaf(v) ELSE c[q]],
          raised |-> FALSE]

\* dict_deep_update(a, b): b's entries are written over a's, mapping by mapping.
dict_deep_update(a, b) ==
    LET replaced(p) == \E q \in DOMAIN b :
                          /\ q = p \/ IsProperPrefix(q, p)
                          /\ q \in DOMAIN a
                          /\ ~(a[q].isdict /\ b[q].isdict)
        keep == {p \in DOMAIN a : ~replaced(p)} IN
    [p \in keep \cup DOMAIN b |-> IF p \in DOMAIN b THEN b[p] ELSE a[p]]

\* _Environ.load(env_spec, override)
Load(e, new_envs, override) ==
    IF override THEN new_envs ELSE dict_deep_update(e, new_envs)

\* The mappings handed to load and with_env.
EnvSpecs ==
    {EmptyStore,
     [p \in {<<"y">>} |-> Leaf(<<1>>)],
     [p \in {<<"x">>, <<"x", "y">>} |-> IF p = <<"x">> THEN Dict ELSE Leaf(<<1>>)]}

\* env = _Environ()
EnvInit ==
    /\ envs = EmptyStore
    /\ last_call = NoCall
    /\ in_block = FALSE
    /\ backup = EmptyStore
    /\ env_before = EmptyStore

\* set_env(key, value)
env_set ==
    \E p \in KeyPaths, v \in Values :
        LET r == Set(envs, p, v) IN
        /\ envs' = r.envs
        /\ last_call' = [op |-> "set", key |-> p, arg |-> v, present |-> p \in DOMAIN envs,
                         ret |-> Leaf(None), raised |-> r.raised]

\* get_env(key, default)
env_get ==
    \E p \in KeyPaths, d \in Values :
        LET r == Get(envs, p, d) IN
        /\ envs' = r.envs
        /\ last_call' = [op |-> "get", key |-> p, arg |-> d, present |-> p \in DOMAIN envs,
                         ret |-> r.ret, raised |-> r.raised]

\* has_env(key)
env_has ==
    \E p \in KeyPaths :
        LET r == Has(envs, p) IN
        /\ envs' = r.envs
        /\ last_call' = [op |-> "has", key |-> p, arg |-> None, present |-> p \in DOMAIN envs,
                         ret |-> Leaf(IF r.ret THEN <<1>> ELSE None), raised |-> r.raised]

\* load_env(env_spec, override)
env_load ==
    \E spec \in EnvSpecs, override \in BOOLEAN :
        /\ envs' = Load(envs, spec, override)
        /\ last_call' = [NoCall EXCEPT !.op = IF override THEN "load:override" ELSE "load"]

\* with_env(env_spec, override) up to the yield.  backup is held by value: the
\* dict it refers to (override) or copies (otherwise) is out of the store's
\* reach while the block runs.
with_env_enter ==
    /\ ~in_block
    /\ \E spec \in EnvSpecs, override \in BOOLEAN :
        /\ backup' = envs
        /\ env_before' = envs
        /\ envs' = Load(envs, spec, override)
        /\ last_call' = [NoCall EXCEPT !.op = "with_env:enter"]
    /\ in_block' = TRUE

\* The block ends normally: the generator resumes after the yield.
with_env_exit ==
    /\ in_block
    /\ envs' = backup
    /\ in_block' = FALSE
    /\ last_call' = [NoCall EXCEPT !.op = "with_env:exit"]
    /\ UNCHANGED <<backup, env_before>>

\* The block raises: contextlib throws the exception into the generator at
\* the yield, which has no try/finally around it, so line 196 is not run.
with_env_raise ==
    /\ in_block
    /\ in_block' = FALSE
    /\ last_call' = [NoCall EXCEPT !.op = "with_env:raise"]
    /\ UNCHANGED <<envs, backup, env_before>>

\* ================================================================ EnvBox
\* The module keeps two things apart: the name `env`, which EnvBox.run may
\* rebind, and the accessors load_env, has_env, get_env, set_env, which are
\* methods bound at import to the _Environ object created on line 178.  That
\* object's content is envs; the child process starts with a copy of it.

\* env = _Environ() and no EnvBox yet.
BoxInit ==
    /\ box_pc = "none"
    /\ box_env = None
    /\ box_seed = 1
    /\ env_name = "global"
    /\ rng_seed = None

\* EnvBox(..., env=snapshot): the snapshot is None, an _Environ holding one of
\* the mappings, or a clone of the current store; the seed is what gen_seed()
\* returned.
box_construct ==
    /\ box_pc = "none"
    /\ \E snapshot \in {None} \cup {<<e>> : e \in EnvSpecs \cup {envs}}, seed \in 1..MaxSeed :
        /\ box_env' = snapshot
        /\ box_seed' = seed
    /\ box_pc' = "constructed"
    /\ UNCHANGED <<env_name, rng_seed>>

\* start(): the child process begins run() with the parent's memory.
box_start ==
    /\ box_pc = "constructed"
    /\ box_pc' = "run"
    /\ UNCHANGED <<box_env, box_seed, env_name, rng_seed>>

\* run(), lines 161-163: if self._env: global env; env = self._env
box_run_install_env ==
    /\ box_pc = "run"
    /\ env_name' = IF box_env # None THEN "snapshot" ELSE env_name
    /\ box_pc' = "env_done"
    /\ UNCHANGED <<box_env, box_seed, rng_seed>>

\* run(), lines 164-165: random.reset_rng(self.__seed)
box_run_reset_rng ==
    /\ box_pc = "env_done"
    /\ rng_seed' = <<box_seed>>
    /\ box_pc' = "rng_done"
    /\ UNCHANGED <<box_env, box_seed, env_name>>

\* run(), line 171: super().run() calls the task, which reads the
\* configuration with get_env or has_env.  These are the methods of the
\* object of line 178, whatever `env` names by now.
box_run_task ==
    /\ box_pc = "rng_done"
    /\ \/ \E p \in KeyPaths, d \in Values :
            LET r == Get(envs, p, d) IN
            /\ envs' = r.envs
            /\ last_call' = [op |-> "get", key |-> p, arg |-> d,
                             present |-> p \in DOMAIN envs,
                             ret |-> r.ret, raised |-> r.raised]
       \/ \E p \in KeyPaths :
            LET r == Has(envs, p) IN
            /\ envs' = r.envs
            /\ last_call' = [op |-> "has", key |-> p, arg |-> None,
                             present |-> p \in DOMAIN envs,
                             ret |-> Leaf(IF r.ret THEN <<1>> ELSE None),
                             raised |-> r.raised]
    /\ box_pc' = "done"
    /\ UNCHANGED <<box_env, box_seed, env_name, rng_seed, in_block, backup, env_before>>

\* ============================================ MoveRightRLEnviron, proxies

MOVE_LEFT == 0
MOVE_RIGHT == 1

\* Variant: a step to the left is not clamped at 0.
MoveRight_actionNoClamp(pos, size, action) ==
    LET new == IF action = 1 THEN pos + 1 ELSE pos - 1 IN
    [pos |-> new,
     reward |-> IF action = 1 THEN 1 ELSE -1,
     is_over |-> new >= size - 1]

\* MoveRightRLEnviron._action: the new position and the pair returned.
MoveRight_action(pos, size, action) ==
    LET new == IF action = 1 THEN pos + 1
               ELSE IF pos - 1 > 0 THEN pos - 1 ELSE 0 IN
    [pos |-> new,
     reward |-> IF action = 1 THEN 1 ELSE -1,
     is_over |-> new >= size - 1]

\* MoveRightRLEnviron._restart(pos)
MoveRight_restart(pos) == <<pos>>

\* Variant: the episode is cut only after the limit has been passed.
LimitLength_actionStrict(inner, cnt, limit) ==
    [pos |-> inner.pos,
     cnt |-> cnt + 1,
     reward |-> inner.reward,
     is_over |-> IF cnt + 1 > limit THEN TRUE ELSE inner.is_over]

\* LimitLengthProxyRLEnviron._action around the inner environment's result.
LimitLength_action(inner, cnt, limit) ==
    [pos |-> inner.pos,
     cnt |-> cnt + 1,
     reward |-> inner.reward,
     is_over |-> IF cnt + 1 >= limit THEN TRUE ELSE inner.is_over]

\* ProxyRLEnvironBase: restart() of a proxy runs its _restart, which by
\* default is the wrapped environment's restart().
ProxyRLEnvironBase_restart(inner) == inner

\* LimitLengthProxyRLEnviron._restart: super()._restart(), then _cnt = 0.
LimitLength_restart ==
    [pos |-> ProxyRLEnvironBase_restart(MoveRight_restart(0)), cnt |-> 0]

\* AutoRestartProxyRLEnviron._action around LimitLength around MoveRight.
AutoRestart_action(pos, cnt, size, limit, action) ==
    LET r == LimitLength_action(MoveRight_action(pos, size, action), cnt, limit)
        fresh == ProxyRLEnvironBase_restart(LimitLength_restart) IN
    [pos |-> IF r.is_over THEN fresh.pos ELSE <<r.pos>>,
     cnt |-> IF r.is_over THEN fresh.cnt ELSE r.cnt,
     stepped |-> r.pos,
     reward |-> r.reward,
     is_over |-> r.is_over]

\* MoveRightRLEnviron(size), not restarted yet.
MoveRightInit ==
    /\ rl_size \in 1..MaxSize
    /\ rl_pos = None
    /\ rl_limit = 1
    /\ rl_cnt = 0
    /\ rl_steps = 0
    /\ rl_trace = <<>>

\* AutoRestartProxyRLEnviron(LimitLengthProxyRLEnviron(MoveRightRLEnviron(size), limit))
ProxyInit ==
    /\ rl_size \in 1..MaxSize
    /\ rl_pos = None
    /\ rl_limit \in 1..MaxLimit
    /\ rl_cnt = 0
    /\ rl_steps = 0
    /\ rl_trace = <<>>

\* restart(pos) on the bare environment.
mr_restart ==
    /\ \E pos \in 0..(rl_size - 1) : rl_pos' = MoveRight_restart(pos)
    /\ rl_trace' = <<>>
    /\ UNCHANGED <<rl_size, rl_limit, rl_cnt, rl_steps>>

\* action(a) on the bare environment, once it has been restarted.
mr_action ==
    /\ rl_pos # None
    /\ rl_steps < MaxSteps
    /\ \E a \in {MOVE_LEFT, MOVE_RIGHT} :
        LET r == MoveRight_action(rl_pos[1], rl_size, a) IN
        /\ rl_pos' = <<r.pos>>
        /\ rl_trace' = Append(rl_trace,
                [action |-> a, pos |-> rl_pos[1], cnt |-> rl_cnt, stepped |-> r.pos,
                 reward |-> r.reward, is_over |-> r.is_over])
    /\ rl_steps' = rl_steps + 1
    /\ UNCHANGED <<rl_size, rl_limit, rl_cnt>>

\* restart() on the outermost proxy.
proxy_restart ==
    /\ rl_pos' = ProxyRLEnvironBase_restart(LimitLength_restart).pos
    /\ rl_cnt' = ProxyRLEnvironBase_restart(LimitLength_restart).cnt
    /\ rl_trace' = <<>>
    /\ UNCHANGED <<rl_size, rl_limit, rl_steps>>

\* action(a) on the outermost proxy, the restart after an episode's end
\* included.
proxy_action ==
    /\ rl_pos # None
    /\ rl_steps < MaxSteps
    /\ \E a \in {MOVE_LEFT, MOVE_RIGHT} :
        LET r == AutoRestart_action(rl_pos[1], rl_cnt, rl_size, rl_limit, a) IN
        /\ rl_pos' = r.pos
        /\ rl_cnt' = r.cnt
        /\ rl_trace' = Append(rl_trace,
                [action |-> a, pos |-> rl_pos[1], cnt |-> rl_cnt, stepped |-> r.stepped,
                 reward |-> r.reward, is_over |-> r.is_over])
    /\ rl_steps' = rl_steps + 1
    /\ UNCHANGED <<rl_size, rl_limit>>

\* ============================= AutoRestartProxyRLEnviron, any environment
\* The wrapped environment is anything that answers action() with a reward
\* and an is_over flag; what is recorded is the calls it receives.

Rewards == {-1, 1}

\* Variant: restart() is called before finish().
AutoRestartProxy_actionRestartFirst(r) ==
    [calls |-> IF r.is_over THEN <<"action", "restart", "finish">> ELSE <<"action">>,
     reward |-> r.reward,
     is_over |-> r.is_over]

\* AutoRestartProxyRLEnviron._action, given what self.proxy.action(action)
\* returned: the calls that reach the wrapped environment and the pair
\* returned.  finish() and restart() of the proxy are passed on to the wrapped
\* environment by ProxyRLEnvironBase.
AutoRestartProxy_action(r) ==
    [calls |-> IF r.is_over THEN <<"action", "finish", "restart">> ELSE <<"action">>,
     reward |-> r.reward,
     is_over |-> r.is_over]

\* The proxy around an environment, before the first restart().
ARInit ==
    /\ ar_over = FALSE
    /\ ar_calls = <<>>
    /\ ar_rets = <<>>

\* The caller's restart().
ar_restart ==
    /\ ar_calls = <<>>
    /\ ar_calls' = <<"restart">>
    /\ ar_over' = FALSE
    /\ UNCHANGED ar_rets

\* The caller's action(a); the wrapped environment answers with any reward
\* and any is_over.
ar_action ==
    /\ ar_calls # <<>>
    /\ Len(ar_rets) < MaxSteps
    /\ \E reward \in Rewards, over \in BOOLEAN :
        LET r == AutoRestartProxy_action([reward |-> reward, is_over |-> over]) IN
        /\ ar_calls' = ar_calls \o r.calls
        /\ ar_over' = IF r.calls[Len(r.calls)] = "restart" THEN FALSE ELSE over
        /\ ar_rets' = Append(ar_rets,
                [inner_reward |-> reward, inner_over |-> over, stale |-> ar_over,
                 reward |-> r.reward, is_over |-> r.is_over])

\* ================================================== A3CTrainerEnv queues
\* queue.Queue(maxsize): put() waits while the queue is full, and a maxsize
\* of zero or less means there is no limit; get() takes the oldest item.

Producers == {"p1", "p2"}

DefaultLengthFactor == 16

\* Variant: put() never finds the queue full.
Queue_fullNever(q, maxsize) == FALSE

\* Queue.put waits while this holds.
Queue_full(q, maxsize) == maxsize > 0 /\ Len(q) >= maxsize

\* Queue.put, once there is room.
Queue_put(q, item) == Append(q, item)

\* Queue.get on a queue that is not empty.
Queue_get(q) == [item |-> Head(q), queue |-> Tail(q)]

\* get_env('a3c.data_queue_length_factor', 16)
get_length_factor(stored) == IF stored = None THEN DefaultLengthFactor ELSE stored[1]

\* initialize_all_peers, line 64, and nothing produced yet.
DataQueueInit ==
    /\ batch_size \in 1..MaxBatch
    /\ length_factor \in {None} \cup {<<f>> : f \in 1..MaxFactor}
    /\ data_queue = <<>>
    /\ data_queue_maxsize = batch_size * get_length_factor(length_factor)
    /\ dq_pending = [p \in Producers |-> FALSE]
    /\ dq_next = 1
    /\ dq_got = <<>>

\* initialize_all_peers, line 63, and nothing requested yet.
PredictorsQueueInit ==
    /\ predictors_queue = <<>>
    /\ predictors_queue_maxsize = 0
    /\ pq_next = 1

\* A producer calls data_queue.put(sample).
dq_put_call ==
    /\ \E p \in Producers :
        /\ ~dq_pending[p]
        /\ dq_pending' = [dq_pending EXCEPT ![p] = TRUE]
    /\ UNCHANGED <<batch_size, length_factor, data_queue, data_queue_maxsize, dq_next, dq_got>>

\* A put() in progress finds room and enqueues; samples are numbered in the
\* order they enter the queue.
dq_put_done ==
    /\ dq_next <= MaxSamples
    /\ ~Queue_full(data_queue, data_queue_maxsize)
    /\ \E p \in Producers :
        /\ dq_pending[p]
        /\ dq_pending' = [dq_pending EXCEPT ![p] = FALSE]
    /\ data_queue' = Queue_put(data_queue, dq_next)
    /\ dq_next' = dq_next + 1
    /\ UNCHANGED <<batch_size, length_factor, data_queue_maxsize, dq_got>>

\* The consumer's data_queue.get().
dq_get ==
    /\ data_queue # <<>>
    /\ data_queue' = Queue_get(data_queue).queue
    /\ dq_got' = Append(dq_got, Queue_get(data_queue).item)
    /\ UNCHANGED <<batch_size, length_factor, data_queue_maxsize, dq_pending, dq_next>>

\* A player's prediction request is put on predictors_queue.
pq_put ==
    /\ pq_next <= MaxRequests
    /\ ~Queue_full(predictors_queue, predictors_queue_maxsize)
    /\ \E p \in Producers :
        predictors_queue' = Queue_put(predictors_queue, [player |-> p, n |-> pq_next])
    /\ pq_next' = pq_next + 1
    /\ UNCHANGED predictors_queue_maxsize

\* A predictor thread takes the oldest request.
pq_get ==
    /\ predictors_queue # <<>>
    /\ predictors_queue' = Queue_get(predictors_queue).queue
    /\ UNCHANGED <<predictors_queue_maxsize, pq_next>>

\* ================================================ SummaryHistoryManager
\* Every method works on the entries of the key it is given, so the entries
\* of one key are modelled.  Values are integers; a quotient is kept as
\* numerator and denominator, 1e-4 being 1 / EpsilonInverse.

SummaryTypes == {"scalar", "async_scalar"}
Methods == {"avg", "max", "sum"}

EpsilonInverse == 10000

NoResult == [kind |-> "none", num |-> 0, den |-> 1]
Number(n) == [kind |-> "value", num |-> n, den |-> 1]

NoSummaryCall ==
    [op |-> "none", type |-> "unknown", check |-> TRUE, raised |-> FALSE,
     top_k |-> None, meth |-> "avg", result |-> NoResult]

RECURSIVE py_sum(_)
\* sum(values)
py_sum(values) == IF values = <<>> THEN 0 ELSE values[1] + py_sum(Tail(values))

RECURSIVE py_max(_)
\* max(values) of a list that is not empty
py_max(values) ==
    IF Len(values) = 1 THEN values[1]
    ELSE LET m == py_max(Tail(values)) IN IF values[1] > m THEN values[1] ELSE m

\* Variant: the first top_k values, values[:top_k].
py_slice_first(values, k) ==
    IF k >= Len(values) THEN values ELSE SubSeq(values, 1, k)

\* values[-top_k:] for top_k >= 0; -0 is 0, so top_k = 0 gives the whole list.
py_slice_last(values, k) ==
    IF k = 0 \/ k >= Len(values) THEN values
    ELSE SubSeq(values, Len(values) - k + 1, Len(values))

\* values[last_query:]
py_slice_from(values, k) ==
    IF k >= Len(values) THEN <<>> ELSE SubSeq(values, k + 1, Len(values))

\* SummaryHistoryManager._do_average; max() of an empty list raises.
do_average(values, meth) ==
    IF meth = "avg"
    THEN [kind |-> "value", num |-> py_sum(values) * EpsilonInverse,
          den |-> Len(values) * EpsilonInverse + 1]
    ELSE IF meth = "max"
    THEN IF values = <<>> THEN [NoResult EXCEPT !.kind = "raise"]
         ELSE Number(py_max(values))
    ELSE Number(py_sum(values))

\* SummaryHistoryManager.average(key, top_k, meth); top_k is None or <<k>>.
average(type, values, last_query, top_k, meth) ==
    IF type = "scalar"
    THEN do_average(py_slice_last(values, IF top_k = None THEN Len(values) ELSE top_k[1]),
                    meth)
    ELSE IF type = "async_scalar"
    THEN LET new == py_slice_from(values, last_query) IN
         IF Len(new) > 0 THEN do_average(new, meth)
         ELSE [NoResult EXCEPT !.kind = "N/A"]
    ELSE NoResult

\* Variant: set_type as with check=False.
SetTypeUnchecked(old_value, value, check) == [type |-> value, raised |-> FALSE]

\* SummaryHistoryManager.set_type: the type recorded afterwards, and whether
\* the assertion failed.
SetType(old_value, value, check) ==
    IF old_value # "unknown" /\ check /\ old_value # value
    THEN [type |-> old_value, raised |-> TRUE]
    ELSE [type |-> value, raised |-> FALSE]

\* SummaryHistoryManager()
SummaryInit ==
    /\ summaries = <<>>
    /\ summaries_type = "unknown"
    /\ summaries_last_query = 0
    /\ summary_call = NoSummaryCall
    /\ epoch_pc = "idle"
    /\ epoch_included = <<>>

\* The manager after summary_history_on_optimization_before has set the key's
\* type to async_scalar from extra_summary_types.
AsyncSummaryInit ==
    /\ summaries = <<>>
    /\ summaries_type = "async_scalar"
    /\ summaries_last_query = 0
    /\ summary_call = NoSummaryCall
    /\ epoch_pc = "idle"
    /\ epoch_included = <<>>

\* mgr.set_type(key, value, check)
set_type ==
    /\ \E value \in SummaryTypes, check \in BOOLEAN :
        LET r == SetType(summaries_type, value, check) IN
        /\ summaries_type' = r.type
        /\ summary_call' = [NoSummaryCall EXCEPT !.op = "set_type", !.type = value,
                                                 !.check = check, !.raised = r.raised]
    /\ UNCHANGED <<summaries, summaries_last_query, epoch_pc, epoch_included>>

\* mgr.put_scalar(key, value)
put_scalar ==
    /\ Len(summaries) < MaxSummaryLen
    /\ \E value \in 1..MaxSummaryValue : summaries' = Append(summaries, value)
    /\ summary_call' = [NoSummaryCall EXCEPT !.op = "put_scalar"]
    /\ UNCHANGED <<summaries_type, summaries_last_query, epoch_pc, epoch_included>>

\* mgr.put_summaries(summaries) for one simple_value: put_scalar, then
\* set_type(tag, 'scalar').
put_summaries ==
    /\ Len(summaries) < MaxSummaryLen
    /\ \E value \in 1..MaxSummaryValue : summaries' = Append(summaries, value)
    /\ LET r == SetType(summaries_type, "scalar", TRUE) IN
        /\ summaries_type' = r.type
        /\ summary_call' = [NoSummaryCall EXCEPT !.op = "put_summaries", !.type = "scalar",
                                                 !.raised = r.raised]
    /\ UNCHANGED <<summaries_last_query, epoch_pc, epoch_included>>

\* put_summary_history_scalar(trainer, name, value): set_type(name, 'scalar'),
\* then put_scalar unless the assertion failed.
put_summary_history_scalar ==
    /\ Len(summaries) < MaxSummaryLen
    /\ LET r == SetType(summaries_type, "scalar", TRUE) IN
        /\ summaries_type' = r.type
        /\ summary_call' = [NoSummaryCall EXCEPT !.op = "put_summary_history_scalar",
                                                 !.type = "scalar", !.raised = r.raised]
        /\ IF r.raised THEN summaries' = summaries
           ELSE \E value \in 1..MaxSummaryValue : summaries' = Append(summaries, value)
    /\ UNCHANGED <<summaries_last_query, epoch_pc, epoch_included>>

\* mgr.average(key, top_k, meth)
summary_average ==
    /\ \E top_k \in {None} \cup {<<k>> : k \in 0..MaxTopK}, meth \in Methods :
        summary_call' = [NoSummaryCall EXCEPT
            !.op = "average", !.top_k = top_k, !.meth = meth,
            !.result = average(summaries_type, summaries, summaries_last_query, top_k, meth)]
    /\ UNCHANGED <<summaries, summaries_type, summaries_last_query, epoch_pc, epoch_included>>

\* mgr.put_async_scalar(key, value), under summary_async_lock.
put_async_scalar ==
    /\ Len(summaries) < MaxSummaryLen
    /\ \E value \in 1..MaxSummaryValue : summaries' = Append(summaries, value)
    /\ epoch_included' = Append(epoch_included, 0)
    /\ summary_call' = [NoSummaryCall EXCEPT !.op = "put_async_scalar"]
    /\ UNCHANGED <<summaries_type, summaries_last_query, epoch_pc>>

\* summary_history_scalar_on_epoch_after, lines 203-208 for the key:
\* mgr.average(k, meth='avg'), under summary_async_lock.
epoch_average ==
    /\ epoch_pc = "idle"
    /\ summary_call' = [NoSummaryCall EXCEPT
            !.op = "average", !.meth = "avg",
            !.result = average(summaries_type, summaries, summaries_last_query, None, "avg")]
    /\ epoch_included' = [i \in 1..Len(epoch_included) |->
            IF i > summaries_last_query THEN epoch_included[i] + 1 ELSE epoch_included[i]]
    /\ epoch_pc' = "averaged"
    /\ UNCHANGED <<summaries, summaries_type, summaries_last_query>>

\* summary_history_scalar_on_epoch_after, line 209: mgr.update_last_query(k),
\* which takes no lock.
epoch_update_last_query ==
    /\ epoch_pc = "averaged"
    /\ summaries_last_query' = Len(summaries)
    /\ summary_call' = [NoSummaryCall EXCEPT !.op = "update_last_query"]
    /\ epoch_pc' = "idle"
    /\ UNCHANGED <<summaries, summaries_type, epoch_included>>

\* ============================================== nn.tfutils fetch_variable
\* A session holds, for each variable, its value or nothing while the
\* variable is uninitialized.  session.run of an uninitialized variable raises
\* FailedPreconditionError; any session.run can also fail for a reason of its
\* own (a closed session, a lost device), which is the fault drawn per call.

TfVars == {"a", "b", "c"}
VarLists == {l \in [1..1 -> TfVars] \cup [1..2 -> TfVars] : Len(l) = 2 => l[1] # l[2]}
InitialValue == 0

NoFetchCall == [op |-> "none", log |-> <<>>, error |-> "none", result |-> <<>>]

Run(what, outcome) == [run |-> what, outcome |-> outcome]

\* session.run(var_list): the outcome of fetching, fault being whether the
\* call fails for a reason of its own.
session_run(value, var_list, fault) ==
    IF fault THEN "RuntimeError"
    ELSE IF \E i \in 1..Len(var_list) : value[var_list[i]] = None
    THEN "FailedPreconditionError"
    ELSE "ok"

Fetched(value, var_list) == [i \in 1..Len(var_list) |-> value[var_list[i]][1]]

Raised(op, log, value) ==
    [call |-> [op |-> op, log |-> log, error |-> log[Len(log)].outcome, result |-> <<>>],
     value |-> value]

Returned(op, log, value, var_list) ==
    [call |-> [op |-> op, log |-> log, error |-> "none", result |-> Fetched(value, var_list)],
     value |-> value]

\* Variant: run the initializer first, then fetch.
fetch_variableInitFirst(value, var, fault) ==
    LET initialized == [value EXCEPT ![var] = <<InitialValue>>]
        log == <<Run("init", "ok"), Run("fetch", session_run(initialized, <<var>>, fault = 1))>>
    IN  IF log[2].outcome = "ok"
        THEN Returned("fetch_variable", log, initialized, <<var>>)
        ELSE Raised("fetch_variable", log, initialized)

\* fetch_variable(var, session); fault is the number of the session.run call
\* that fails for a reason of its own (0: none).
fetch_variable(value, var, fault) ==
    LET first == Run("fetch", session_run(value, <<var>>, fault = 1)) IN
    IF first.outcome = "ok" THEN Returned("fetch_variable", <<first>>, value, <<var>>)
    ELSE IF first.outcome # "FailedPreconditionError"
    THEN Raised("fetch_variable", <<first>>, value)
    ELSE LET init == Run("init", IF fault = 2 THEN "RuntimeError" ELSE "ok") IN
         IF init.outcome # "ok" THEN Raised("fetch_variable", <<first, init>>, value)
         ELSE LET initialized == [value EXCEPT ![var] = <<InitialValue>>]
                  retry == Run("fetch", session_run(initialized, <<var>>, fault = 3))
              IN  IF retry.outcome = "ok"
                  THEN Returned("fetch_variable", <<first, init, retry>>, initialized, <<var>>)
                  ELSE Raised("fetch_variable", <<first, init, retry>>, initialized)

\* fetch_variables(var_list, session).  tf.errors has no FailedPredictionError,
\* so evaluating the except clause raises AttributeError for whatever
\* session.run raised.
fetch_variables(value, var_list, fault) ==
    LET first == Run("fetch", session_run(value, var_list, fault = 1)) IN
    IF first.outcome = "ok" THEN Returned("fetch_variables", <<first>>, value, var_list)
    ELSE [Raised("fetch_variables", <<first>>, value) EXCEPT !.call.error = "AttributeError"]

\* A session whose variables have not been initialized.
FetchInit ==
    /\ var_value = [v \in TfVars |-> None]
    /\ fetch_call = NoFetchCall

\* assign_variable(var, value, session)
assign_variable ==
    /\ \E var \in TfVars, value \in 0..MaxValue :
        var_value' = [var_value EXCEPT ![var] = <<value>>]
    /\ fetch_call' = [NoFetchCall EXCEPT !.op = "assign_variable"]

fetch_variable_call ==
    \E var \in TfVars, fault \in 0..3 :
        LET r == fetch_variable(var_value, var, fault) IN
        /\ var_value' = r.value
        /\ fetch_call' = r.call

fetch_variables_call ==
    \E var_list \in VarLists, fault \in 0..1 :
        LET r == fetch_variables(var_value, var_list, fault) IN
        /\ var_value' = r.value
        /\ fetch_call' = r.call

\* ===================================================== image.image_grid
\* An image is modelled by its shape (h, w, c), which is all that hstack and
\* vstack look at; an axis description "%d[h|v]" by its count (None for a
\* bare 'h' or 'v') and its axis.

Channels == {1, 3}
Axes == {"h", "v"}
AxisDescs == [count : {None} \cup {<<k>> : k \in 1..MaxCount}, axis : Axes]
GridDescs == UNION {[1..k -> AxisDescs] : k \in 0..MaxAxes}

Image(h, w, c) == [kind |-> "image", h |-> h, w |-> w, c |-> c]
GridError(kind) == [kind |-> kind, h |-> 0, w |-> 0, c |-> 0]
NoGrid == GridError("none")

RECURSIVE SumOver(_, _)
SumOver(f, n) == IF n = 0 THEN 0 ELSE f[n] + SumOver(f, n - 1)

\* np.hstack(sequence) of (h, w, c) arrays
np_hstack(sequence) ==
    IF sequence = <<>> THEN GridError("ValueError")
    ELSE IF \E i \in 1..Len(sequence) :
                sequence[i].h # sequence[1].h \/ sequence[i].c # sequence[1].c
    THEN GridError("ValueError")
    ELSE Image(sequence[1].h, SumOver([i \in 1..Len(sequence) |-> sequence[i].w], Len(sequence)),
               sequence[1].c)

\* np.vstack(sequence) of (h, w, c) arrays
np_vstack(sequence) ==
    IF sequence = <<>> THEN GridError("ValueError")
    ELSE IF \E i \in 1..Len(sequence) :
                sequence[i].w # sequence[1].w \/ sequence[i].c # sequence[1].c
    THEN GridError("ValueError")
    ELSE Image(SumOver([i \in 1..Len(sequence) |-> sequence[i].h], Len(sequence)),
               sequence[1].w, sequence[1].c)

\* The first part that raised, if any: the parts are built in order.
FirstError(sequence) ==
    LET bad == {i \in 1..Len(sequence) : sequence[i].kind # "image"} IN
    IF bad = {} THEN NoGrid
    ELSE sequence[CHOOSE i \in bad : \A j \in bad : i <= j]

\* Variant: 'h' stacks vertically and 'v' horizontally.
stack_swapped(axis, sequence) ==
    IF FirstError(sequence) # NoGrid THEN FirstError(sequence)
    ELSE IF Len(sequence) = 1 THEN sequence[1]
    ELSE IF axis = "h" THEN np_vstack(sequence)
    ELSE np_hstack(sequence)

\* image_grid.stack(i, sequence), with the axis of axes_info[i]
stack(axis, sequence) ==
    IF FirstError(sequence) # NoGrid THEN FirstError(sequence)
    ELSE IF Len(sequence) = 1 THEN sequence[1]
    ELSE IF axis = "h" THEN np_hstack(sequence)
    ELSE np_vstack(sequence)

RECURSIVE parse_axes(_, _)
\* image_grid, lines 35-45: what is left of auto_infer_dim after the explicit
\* counts, or the failed assertion.
parse_axes(desc, auto_infer_dim) ==
    IF desc = <<>> THEN [raised |-> FALSE, auto_infer_dim |-> auto_infer_dim]
    ELSE IF Head(desc).count = None THEN parse_axes(Tail(desc), auto_infer_dim)
    ELSE IF auto_infer_dim % Head(desc).count[1] # 0
    THEN [raised |-> TRUE, auto_infer_dim |-> auto_infer_dim]
    ELSE parse_axes(Tail(desc), auto_infer_dim \div Head(desc).count[1])

\* image_grid, lines 47-49: axes_info with the bare axes filled in.
axes_info(desc, auto_infer_dim) ==
    [i \in 1..Len(desc) |->
        [count |-> IF desc[i].count = None THEN auto_infer_dim ELSE desc[i].count[1],
         axis |-> desc[i].axis]]

RECURSIVE recursive_concat(_, _, _)
\* image_grid.recursive_concat(i, sequence); i counts from 1 here.
recursive_concat(info, i, sequence) ==
    IF i = Len(info) THEN stack(info[i].axis, sequence)
    ELSE LET nr_parts == info[i].count
             length == Len(sequence) \div nr_parts
             parts == [j \in 1..nr_parts |->
                          recursive_concat(info, i + 1,
                                           SubSeq(sequence, (j - 1) * length + 1, j * length))]
         IN  stack(info[i].axis, parts)

\* image_grid(all_images, grid_desc)
image_grid(all_images, desc) ==
    LET parsed == parse_axes(desc, Len(all_images)) IN
    IF parsed.raised THEN GridError("AssertionError")
    ELSE IF desc = <<>> THEN GridError("IndexError")
    ELSE recursive_concat(axes_info(desc, parsed.auto_infer_dim), 1, all_images)

\* The arguments of a call: some images of one shape and a description.
GridInit ==
    /\ \E n \in 1..MaxImages, h \in 1..MaxDim, w \in 1..MaxDim, c \in Channels :
        grid_images = [i \in 1..n |-> Image(h, w, c)]
    /\ grid_desc \in GridDescs
    /\ grid_result = NoGrid

\* image_grid(all_images, grid_desc)
image_grid_call ==
    /\ grid_result = NoGrid
    /\ grid_result' = image_grid(grid_images, grid_desc)
    /\ UNCHANGED <<grid_images, grid_desc>>

\* ================================== PreferenceCollector._try_post_pair
\* Several worker threads call _try_post_pair, each with the sub-window its
\* _try_post_video extracted.  A sub-window is named by the order in which the
\* calls were made; a thread stands before the with statement ("acquire"),
\* inside it before the append ("append"), or before the length test
\* ("check").

PairThreads == {"t1", "t2", "t3"}

\* Variant: a with statement that enters whoever holds the mutex.
Lock_freeAlways(mutex) == TRUE

\* threading.Lock: whether acquire() goes through.
Lock_free(mutex) == mutex = None

\* PreferenceCollector.__init__, lines 68-71, with no call under way.
PairInit ==
    /\ pair_mutex = None
    /\ tpp_pc = [t \in PairThreads |-> "idle"]
    /\ tpp_window = [t \in PairThreads |-> [frames |-> 0, variance |-> 0]]
    /\ tpp_order = <<>>
    /\ tpp_pairs = <<>>
    /\ nr_windows = 0

\* A thread calls _try_post_pair(states, observations, actions, variance).
tpp_call ==
    /\ nr_windows < MaxWindows
    /\ \E t \in PairThreads, variance \in 0..MaxVariance :
        /\ tpp_pc[t] = "idle"
        /\ tpp_window' = [tpp_window EXCEPT ![t] = [frames |-> nr_windows + 1,
                                                   variance |-> variance]]
        /\ tpp_pc' = [tpp_pc EXCEPT ![t] = "acquire"]
    /\ nr_windows' = nr_windows + 1
    /\ UNCHANGED <<pair_mutex, tpp_order, tpp_pairs>>

\* with self._pair_mutex: the thread gets the mutex.
tpp_acquire ==
    /\ \E t \in PairThreads :
        /\ tpp_pc[t] = "acquire"
        /\ Lock_free(pair_mutex)
        /\ pair_mutex' = <<t>>
        /\ tpp_order' = Append(tpp_order, tpp_window[t].frames)
        /\ tpp_pc' = [tpp_pc EXCEPT ![t] = "append"]
    /\ UNCHANGED <<tpp_window, tpp_pairs, nr_windows>>

\* self._pair_buffer.append((states, observations, actions, variance))
tpp_append ==
    /\ \E t \in PairThreads :
        /\ tpp_pc[t] = "append"
        /\ pair_buffer' = Append(pair_buffer, tpp_window[t])
        /\ tpp_pc' = [tpp_pc EXCEPT ![t] = "check"]
    /\ UNCHANGED <<pair_mutex, tpp_window, tpp_order, tpp_pairs, nr_windows>>

\* if len(self._pair_buffer) == 2: push the pair and clear the buffer; then
\* the with statement releases the mutex.
tpp_check ==
    /\ \E t \in PairThreads :
        /\ tpp_pc[t] = "check"
        /\ tpp_pc' = [tpp_pc EXCEPT ![t] = "idle"]
    /\ IF Len(pair_buffer) = 2
       THEN /\ pool_push(pair_buffer[1].variance + pair_buffer[2].variance)
            /\ tpp_pairs' = Append(tpp_pairs, <<pair_buffer[1].frames, pair_buffer[2].frames>>)
            /\ pair_buffer' = <<>>
       ELSE UNCHANGED <<poolVars, tpp_pairs, pair_buffer>>
    /\ pair_mutex' = None
    /\ UNCHANGED <<tpp_window, tpp_order, nr_windows>>

\* ============================= SummaryHistoryManager: clear, clear_all
\* For an async_scalar key, as called from any code that holds the manager.

\* mgr.update_last_query(key)
update_last_query ==
    /\ summaries_last_query' = Len(summaries)
    /\ summary_call' = [NoSummaryCall EXCEPT !.op = "update_last_query"]
    /\ UNCHANGED <<summaries, summaries_type, epoch_pc, epoch_included>>

\* mgr.clear(key): self._summaries[key] = []
clear ==
    /\ summaries' = <<>>
    /\ epoch_included' = <<>>
    /\ summary_call' = [NoSummaryCall EXCEPT !.op = "clear"]
    /\ UNCHANGED <<summaries_type, summaries_last_query, epoch_pc>>

\* mgr.clear_all(): self._summaries = {}
clear_all ==
    /\ summaries' = <<>>
    /\ epoch_included' = <<>>
    /\ summary_call' = [NoSummaryCall EXCEPT !.op = "clear_all"]
    /\ UNCHANGED <<summaries_type, summaries_last_query, epoch_pc>>

\* ================================ A3CTrainerEnv.initialize_all_peers
\* The method as the sequence of its statements.  The reply endpoint
\* (QueryRepPipe) gets its connection info when it is initialized, the port
\* being whatever the system hands out.

Statement(op, arg) == [op |-> op, arg |-> arg]

CreatePlayers(n) == [i \in 1..n |-> Statement("create_player", i)]
StartPlayers(n) == [i \in 1..n |-> Statement("start_player", i)]
CreatePredictors(n) == [i \in 1..n |-> Statement("create_predictor", i)]
StartPredictors(n) == [i \in 1..n |-> Statement("start_predictor", i)]

\* Variant: each worker process is started as soon as it is created.
initialize_all_peersStartsInLoop(n, m) ==
    << Statement("router", 0), Statement("register", "data"), Statement("register", "stat"),
       Statement("queues", 0), Statement("router.initialize", 0) >>
    \o [i \in 1..(2 * n) |-> IF i % 2 = 1 THEN Statement("create_player", (i + 1) \div 2)
                             ELSE Statement("start_player", i \div 2)]
    \o CreatePredictors(m) \o StartPredictors(m)

\* initialize_all_peers with nr_players = n and nr_predictors = m
initialize_all_peers(n, m) ==
    << Statement("router", 0), Statement("register", "data"), Statement("register", "stat"),
       Statement("queues", 0), Statement("router.initialize", 0) >>
    \o CreatePlayers(n) \o StartPlayers(n)
    \o CreatePredictors(m) \o StartPredictors(m)

\* The statement to run next, or a statement "return" at the end.
NextStatement ==
    LET body == initialize_all_peers(nr_players, nr_predictors) IN
    IF peers_pc <= Len(body) THEN body[peers_pc] ELSE Statement("return", 0)

NoRouter == [created |-> FALSE, handlers |-> {}, initialized |-> FALSE, conn_info |-> None]

\* A3CTrainerEnv before initialize_all_peers.
PeersInit ==
    /\ peers_pc = 1
    /\ nr_players \in 0..MaxPlayers
    /\ nr_predictors \in 0..MaxPredictors
    /\ players_router = NoRouter
    /\ players = <<>>
    /\ predictors = <<>>

\* self._players_router = QueryRepPipe('a3c-player-master')
peers_create_router ==
    /\ NextStatement.op = "router"
    /\ players_router' = [NoRouter EXCEPT !.created = TRUE]
    /\ peers_pc' = peers_pc + 1
    /\ UNCHANGED <<nr_players, nr_predictors, players, predictors>>

\* self._players_router.dispatcher.register(...)
peers_register ==
    /\ NextStatement.op = "register"
    /\ players_router' = [players_router EXCEPT !.handlers = @ \cup {NextStatement.arg}]
    /\ peers_pc' = peers_pc + 1
    /\ UNCHANGED <<nr_players, nr_predictors, players, predictors>>

\* The two queue.Queue(...) statements.
peers_create_queues ==
    /\ NextStatement.op = "queues"
    /\ peers_pc' = peers_pc + 1
    /\ UNCHANGED <<nr_players, nr_predictors, players_router, players, predictors>>

\* self._players_router.initialize()
peers_router_initialize ==
    /\ NextStatement.op = "router.initialize"
    /\ \E port \in 1..MaxPorts :
        players_router' = [players_router EXCEPT !.initialized = TRUE, !.conn_info = <<port>>]
    /\ peers_pc' = peers_pc + 1
    /\ UNCHANGED <<nr_players, nr_predictors, players, predictors>>

\* req = QueryReqPipe(name, self._players_router.conn_info); prc = EnvBox(...);
\* self._players.append(prc)
peers_create_player ==
    /\ NextStatement.op = "create_player"
    /\ players' = Append(players, [req |-> players_router.conn_info, started |-> FALSE])
    /\ peers_pc' = peers_pc + 1
    /\ UNCHANGED <<nr_players, nr_predictors, players_router, predictors>>

\* p.start() for a player
peers_start_player ==
    /\ NextStatement.op = "start_player"
    /\ players' = [players EXCEPT ![NextStatement.arg].started = TRUE]
    /\ peers_pc' = peers_pc + 1
    /\ UNCHANGED <<nr_players, nr_predictors, players_router, predictors>>

\* prc = threading.Thread(target=self.predictor_func, ...);
\* self._predictors.append(prc)
peers_create_predictor ==
    /\ NextStatement.op = "create_predictor"
    /\ predictors' = Append(predictors, FALSE)
    /\ peers_pc' = peers_pc + 1
    /\ UNCHANGED <<nr_players, nr_predictors, players_router, players>>

\* p.start() for a predictor
peers_start_predictor ==
    /\ NextStatement.op = "start_predictor"
    /\ predictors' = [predictors EXCEPT ![NextStatement.arg] = TRUE]
    /\ peers_pc' = peers_pc + 1
    /\ UNCHANGED <<nr_players, nr_predictors, players_router, players>>

\* ================= PreferenceCollector: the pair mutex and the pool lock
\* Rollout threads run _try_post_pair down to pool.push while the web thread
\* runs pool.pop.  After the length test a rollout thread stands before the
\* with statement of push ("push"), inside it ("in_push"), or before the
\* clear of the pair buffer ("clear"); the web thread stands before the with
\* statement of pop ("acquire") or inside it ("body").

\* Variant: a with statement that keeps the lock when an exception leaves it.
with_exitLeaksOnRaise(raised) == raised

\* with lock: ... -- whether the lock is still held once the block is left,
\* by a return or by an exception.
with_exit(raised) == FALSE

\* PreferenceCollector.__init__ and TrajectoryPairPool.__init__, no call under way.
LockInit ==
    /\ web_pc = "idle"
    /\ lk_evicted = {}
    /\ lk_returned = <<>>
    /\ lk_raised = {}
    /\ lk_pops = 0

\* The rollout threads that post while the web thread pops.
LockThreads == {"t1", "t2"}

\* A rollout thread calls _try_post_pair(states, observations, actions,
\* variance), as one of at most limit calls.
lk_call(limit) ==
    /\ nr_windows < limit
    /\ \E t \in LockThreads, variance \in 0..MaxVariance :
        /\ tpp_pc[t] = "idle"
        /\ tpp_window' = [tpp_window EXCEPT ![t] = [frames |-> nr_windows + 1,
                                                   variance |-> variance]]
        /\ tpp_pc' = [tpp_pc EXCEPT ![t] = "acquire"]
    /\ nr_windows' = nr_windows + 1
    /\ UNCHANGED <<pair_mutex, tpp_order, tpp_pairs>>

\* if len(self._pair_buffer) == 2: go on to the push; otherwise the with
\* statement of _try_post_pair is left and the pair mutex released.
lk_check ==
    /\ \E t \in PairThreads :
        /\ tpp_pc[t] = "check"
        /\ IF Len(pair_buffer) = 2
           THEN /\ tpp_pc' = [tpp_pc EXCEPT ![t] = "push"]
                /\ UNCHANGED pair_mutex
           ELSE /\ tpp_pc' = [tpp_pc EXCEPT ![t] = "idle"]
                /\ pair_mutex' = None
    /\ UNCHANGED <<tpp_window, tpp_order, tpp_pairs, nr_windows>>

\* push: with self._data_pool_lock -- the thread gets the pool lock.
lk_push_acquire ==
    /\ \E t \in PairThreads :
        /\ tpp_pc[t] = "push"
        /\ ~data_pool_lock
        /\ tpp_pc' = [tpp_pc EXCEPT ![t] = "in_push"]
    /\ data_pool_lock' = TRUE
    /\ UNCHANGED <<pair_mutex, tpp_window, tpp_order, tpp_pairs, nr_windows>>

\* push: the body under the pool lock, and the release when the block is left.
lk_push_body ==
    /\ \E t \in PairThreads :
        /\ tpp_pc[t] = "in_push"
        /\ tpp_pc' = [tpp_pc EXCEPT ![t] = "clear"]
    /\ LET priority == pair_buffer[1].variance + pair_buffer[2].variance
           wrapped == Wrapper(priority, data_pool_counter, TrajectoryPair(nr_pushed + 1))
           r == PushBody(data_pool, wrapped, maxlen) IN
        /\ data_pool' = r.pool
        /\ pushed' = Append(pushed, wrapped)
        /\ lk_evicted' = lk_evicted \cup {r.evicted[i].count : i \in 1..Len(r.evicted)}
    /\ data_pool_counter' = data_pool_counter + 1
    /\ nr_pushed' = nr_pushed + 1
    /\ data_pool_lock' = with_exit(FALSE)
    /\ UNCHANGED <<pair_mutex, tpp_window, tpp_order, tpp_pairs, nr_windows>>

\* self._pair_buffer.clear(); then the with statement of _try_post_pair is
\* left and the pair mutex released.
lk_clear ==
    /\ \E t \in PairThreads :
        /\ tpp_pc[t] = "clear"
        /\ tpp_pc' = [tpp_pc EXCEPT ![t] = "idle"]
    /\ tpp_pairs' = Append(tpp_pairs, <<pair_buffer[1].frames, pair_buffer[2].frames>>)
    /\ pair_buffer' = <<>>
    /\ pair_mutex' = None
    /\ UNCHANGED <<tpp_window, tpp_order, nr_windows>>

\* The web thread calls pool.pop().
web_pop_call ==
    /\ web_pc = "idle"
    /\ lk_pops < MaxPops
    /\ web_pc' = "acquire"
    /\ lk_pops' = lk_pops + 1

\* pop: with self._data_pool_lock -- the web thread gets the pool lock.
web_pop_acquire ==
    /\ web_pc = "acquire"
    /\ ~data_pool_lock
    /\ web_pc' = "body"
    /\ data_pool_lock' = TRUE

\* pop: the body under the pool lock with _process completing, and the
\* release when either return leaves the block.
web_pop_body ==
    /\ web_pc = "body"
    /\ LET r == PopBody(data_pool, nr_uids) IN
        /\ data_pool' = r.pool
        /\ nr_uids' = nr_uids + Len(r.uid)
        /\ disk' = disk \cup r.written
        /\ lk_returned' = lk_returned \o [i \in 1..Len(r.entry) |-> r.entry[i].count]
    /\ data_pool_lock' = with_exit(FALSE)
    /\ web_pc' = "idle"

\* pop: the body under the pool lock with _process raising (a failed mkdir
\* or write): the pair has left the pool, the uid is drawn, nothing complete
\* is on disk, and the exception leaves the with block.
web_pop_raise ==
    /\ web_pc = "body"
    /\ Len(data_pool) > 0
    /\ data_pool' = SortedList_pop_last(data_pool)
    /\ nr_uids' = nr_uids + 1
    /\ lk_raised' = lk_raised \cup {data_pool[Len(data_pool)].count}
    /\ data_pool_lock' = with_exit(TRUE)
    /\ web_pc' = "idle"

\* ========================================================= specifications

CollectorIdle ==
    /\ window_length = 1
    /\ video_length = 1
    /\ data_buffer = [w \in Workers |-> <<>>]
    /\ nr_posted = [w \in Workers |-> 0]
    /\ pair_buffer = <<>>
    /\ videos = <<>>
    /\ pair_sides = <<>>
    /\ pref_files = {}
    /\ training_data = <<>>
    /\ pref_log = <<>>

TrainerIdle ==
    /\ pc = "done"
    /\ runtime = EmptyDict
    /\ nr_iters = 0
    /\ epoch_size = 1
    /\ stop_signal = FALSE
    /\ nr_skipped = 0
    /\ trace = <<>>
    /\ iter_preset = FALSE

PoolIdle ==
    /\ data_pool = <<>>
    /\ data_pool_counter = 0
    /\ data_pool_lock = FALSE
    /\ maxlen = 0
    /\ nr_pushed = 0
    /\ nr_uids = 0
    /\ disk = {}
    /\ last_op = "none"
    /\ ret = NoReturn
    /\ popped_any = FALSE
    /\ pops_in_row = 0
    /\ pushed = <<>>

EnvIdle ==
    /\ envs = EmptyStore
    /\ last_call = NoCall
    /\ in_block = FALSE
    /\ backup = EmptyStore
    /\ env_before = EmptyStore

BoxIdle ==
    /\ box_pc = "none"
    /\ box_env = None
    /\ box_seed = 1
    /\ env_name = "global"
    /\ rng_seed = None

RLIdle ==
    /\ rl_size = 2
    /\ rl_pos = None
    /\ rl_limit = 1
    /\ rl_cnt = 0
    /\ rl_steps = 0
    /\ rl_trace = <<>>

ARIdle ==
    /\ ar_over = FALSE
    /\ ar_calls = <<>>
    /\ ar_rets = <<>>

QueueIdle ==
    /\ batch_size = 1
    /\ length_factor = None
    /\ data_queue = <<>>
    /\ data_queue_maxsize = 0
    /\ dq_pending = [p \in Producers |-> FALSE]
    /\ dq_next = 1
    /\ dq_got = <<>>
    /\ predictors_queue = <<>>
    /\ predictors_queue_maxsize = 0
    /\ pq_next = 1

SummaryIdle ==
    /\ summaries = <<>>
    /\ summaries_type = "unknown"
    /\ summaries_last_query = 0
    /\ summary_call = NoSummaryCall
    /\ epoch_pc = "idle"
    /\ epoch_included = <<>>

FetchIdle ==
    /\ var_value = [v \in TfVars |-> None]
    /\ fetch_call = NoFetchCall

GridIdle ==
    /\ grid_images = <<>>
    /\ grid_desc = <<>>
    /\ grid_result = NoGrid

PairIdle ==
    /\ pair_mutex = None
    /\ tpp_pc = [t \in PairThreads |-> "idle"]
    /\ tpp_window = [t \in PairThreads |-> [frames |-> 0, variance |-> 0]]
    /\ tpp_order = <<>>
    /\ tpp_pairs = <<>>
    /\ nr_windows = 0

PeersIdle ==
    /\ peers_pc = 1
    /\ nr_players = 0
    /\ nr_predictors = 0
    /\ players_router = NoRouter
    /\ players = <<>>
    /\ predictors = <<>>

LockIdle ==
    /\ web_pc = "idle"
    /\ lk_evicted = {}
    /\ lk_returned = <<>>
    /\ lk_raised = {}
    /\ lk_pops = 0

AuxIdle ==
    /\ ARIdle
    /\ QueueIdle
    /\ SummaryIdle
    /\ FetchIdle
    /\ GridIdle
    /\ PairIdle
    /\ PeersIdle
    /\ LockIdle

\* The pool's record of its last sequential call, which the threads leave alone.
poolLastCall == <<maxlen, last_op, ret, popped_any, pops_in_row>>

\* What push and pop work on, the lock apart.
poolData == <<data_pool, data_pool_counter, nr_pushed, nr_uids, disk, pushed>>

\* The variables each specification leaves alone.
notTrainVars == <<poolVars, collectorVars, envVars, boxVars, rlVars, auxVars>>
notPoolVars == <<trainVars, collectorVars, envVars, boxVars, rlVars, auxVars>>
notCollectorVars == <<trainVars, envVars, boxVars, rlVars, auxVars>>
notEnvVars == <<trainVars, poolVars, collectorVars, boxVars, rlVars, auxVars>>
notBoxVars == <<trainVars, poolVars, collectorVars, rlVars, auxVars>>
notRLVars == <<trainVars, poolVars, collectorVars, envVars, boxVars, auxVars>>

TrainInit ==
    /\ TrainerInit /\ PoolIdle /\ CollectorIdle /\ EnvIdle /\ BoxIdle /\ RLIdle
    /\ AuxIdle

TrainNext ==
    \/ TriggerInitializationBefore /\ UNCHANGED notTrainVars
    \/ Initialize /\ UNCHANGED notTrainVars
    \/ TriggerInitializationAfter /\ UNCHANGED notTrainVars
    \/ TriggerOptimizationBefore /\ UNCHANGED notTrainVars
    \/ DryRunPass /\ UNCHANGED notTrainVars
    \/ StepPass /\ UNCHANGED notTrainVars
    \/ TriggerOptimizationAfter /\ UNCHANGED notTrainVars
    \/ TriggerFinalizationBegin /\ UNCHANGED notTrainVars
    \/ Finalize /\ UNCHANGED notTrainVars
    \/ TriggerFinalizationAfter /\ UNCHANGED notTrainVars
    \/ SetStopSignal /\ UNCHANGED notTrainVars

TrainSpec == TrainInit /\ [][TrainNext]_vars

PoolSpecInit ==
    /\ PoolInit /\ TrainerIdle /\ CollectorIdle /\ EnvIdle /\ BoxIdle /\ RLIdle
    /\ AuxIdle

PoolNext ==
    \/ push /\ UNCHANGED notPoolVars
    \/ pop /\ UNCHANGED notPoolVars

PoolSpec == PoolSpecInit /\ [][PoolNext]_vars

\* The collector with a pool of the largest size modelled.
CollectorSpecInit ==
    /\ CollectorInit /\ PoolInit /\ maxlen = MaxLen
    /\ TrainerIdle /\ EnvIdle /\ BoxIdle /\ RLIdle /\ AuxIdle

CollectorNext ==
    \/ post_state /\ UNCHANGED notCollectorVars
    \/ pop /\ UNCHANGED <<collectorVars, notCollectorVars>>

CollectorSpec == CollectorSpecInit /\ [][CollectorNext]_vars

\* The labelling side of the collector: pairs arrive in the pool, the web
\* front end pops them and posts preferences for the identifiers it was given.
PrefSpecInit ==
    /\ CollectorInit /\ window_length = 1
    /\ PoolInit /\ maxlen = MaxLen
    /\ TrainerIdle /\ EnvIdle /\ BoxIdle /\ RLIdle /\ AuxIdle

PrefNext ==
    \/ push /\ nr_pushed < MaxPairs /\ UNCHANGED <<collectorVars, notCollectorVars>>
    \/ pop /\ UNCHANGED <<collectorVars, notCollectorVars>>
    \/ post_preference /\ UNCHANGED <<poolVars, notCollectorVars>>

PrefSpec == PrefSpecInit /\ [][PrefNext]_vars


\* The configuration store, used through the module-level accessors.
EnvSpecInit ==
    /\ EnvInit /\ TrainerIdle /\ PoolIdle /\ CollectorIdle /\ BoxIdle /\ RLIdle
    /\ AuxIdle

EnvNext ==
    \/ env_set /\ UNCHANGED <<in_block, backup, env_before, notEnvVars>>
    \/ env_get /\ UNCHANGED <<in_block, backup, env_before, notEnvVars>>
    \/ env_has /\ UNCHANGED <<in_block, backup, env_before, notEnvVars>>
    \/ env_load /\ UNCHANGED <<in_block, backup, env_before, notEnvVars>>

EnvSpec == EnvSpecInit /\ [][EnvNext]_vars

\* The store used before, inside and after with_env blocks.
WithEnvNext ==
    \/ env_set /\ UNCHANGED <<in_block, backup, env_before, notEnvVars>>
    \/ env_get /\ UNCHANGED <<in_block, backup, env_before, notEnvVars>>
    \/ env_load /\ UNCHANGED <<in_block, backup, env_before, notEnvVars>>
    \/ with_env_enter /\ UNCHANGED notEnvVars
    \/ with_env_exit /\ UNCHANGED notEnvVars
    \/ with_env_raise /\ UNCHANGED notEnvVars

WithEnvSpec == EnvSpecInit /\ [][WithEnvNext]_vars

\* A parent process that fills the store, builds an EnvBox and starts it, and
\* the child process's run().
BoxSpecInit ==
    /\ EnvInit /\ BoxInit /\ TrainerIdle /\ PoolIdle /\ CollectorIdle /\ RLIdle
    /\ AuxIdle

BoxNext ==
    \/ /\ box_pc \in {"none", "constructed"}
       /\ env_set
       /\ UNCHANGED <<in_block, backup, env_before, boxVars, notBoxVars>>
    \/ box_construct /\ UNCHANGED <<envVars, notBoxVars>>
    \/ box_start /\ UNCHANGED <<envVars, notBoxVars>>
    \/ box_run_install_env /\ UNCHANGED <<envVars, notBoxVars>>
    \/ box_run_reset_rng /\ UNCHANGED <<envVars, notBoxVars>>
    \/ box_run_task /\ UNCHANGED notBoxVars

BoxSpec == BoxSpecInit /\ [][BoxNext]_vars

\* The bare MoveRightRLEnviron.
MoveRightSpecInit ==
    /\ MoveRightInit /\ TrainerIdle /\ PoolIdle /\ CollectorIdle /\ EnvIdle /\ BoxIdle
    /\ AuxIdle

MoveRightNext ==
    \/ mr_restart /\ UNCHANGED notRLVars
    \/ mr_action /\ UNCHANGED notRLVars

MoveRightSpec == MoveRightSpecInit /\ [][MoveRightNext]_vars

\* The environment inside LimitLength inside AutoRestart.
ProxySpecInit ==
    /\ ProxyInit /\ TrainerIdle /\ PoolIdle /\ CollectorIdle /\ EnvIdle /\ BoxIdle
    /\ AuxIdle

ProxyNext ==
    \/ proxy_restart /\ UNCHANGED notRLVars
    \/ proxy_action /\ UNCHANGED notRLVars

ProxySpec == ProxySpecInit /\ [][ProxyNext]_vars

CoreIdle == TrainerIdle /\ PoolIdle /\ CollectorIdle /\ EnvIdle /\ BoxIdle /\ RLIdle

coreVars == <<trainVars, poolVars, collectorVars, envVars, boxVars, rlVars>>
dataQueueVars == <<batch_size, length_factor, data_queue, data_queue_maxsize, dq_pending,
                   dq_next, dq_got>>
predictorsQueueVars == <<predictors_queue, predictors_queue_maxsize, pq_next>>
collectorButPairBuffer == <<video_length, window_length, data_buffer, nr_posted, videos,
                            pair_sides, pref_files, training_data, pref_log>>

notARVars == <<coreVars, queueVars, summaryVars, fetchVars, gridVars, pairVars,
    peersVars, lockVars>>
notDataQueueVars == <<coreVars, arVars, predictorsQueueVars, summaryVars, fetchVars, gridVars,
                      pairVars,
    peersVars, lockVars>>
notPredictorsQueueVars == <<coreVars, arVars, dataQueueVars, summaryVars, fetchVars, gridVars,
                            pairVars,
    peersVars, lockVars>>
notSummaryVars == <<coreVars, arVars, queueVars, fetchVars, gridVars, pairVars,
    peersVars, lockVars>>
notFetchVars == <<coreVars, arVars, queueVars, summaryVars, gridVars, pairVars,
    peersVars, lockVars>>
notGridVars == <<coreVars, arVars, queueVars, summaryVars, fetchVars, pairVars,
    peersVars, lockVars>>
notPairVars == <<trainVars, collectorButPairBuffer, envVars, boxVars, rlVars, arVars, queueVars,
                 summaryVars, fetchVars, gridVars,
    peersVars, lockVars>>

\* An AutoRestartProxyRLEnviron over an inner environment that ends its
\* episodes when it likes.
ARSpecInit ==
    /\ ARInit /\ CoreIdle
    /\ QueueIdle /\ SummaryIdle /\ FetchIdle /\ GridIdle /\ PairIdle
    /\ PeersIdle /\ LockIdle

ARNext ==
    \/ ar_restart /\ UNCHANGED notARVars
    \/ ar_action /\ UNCHANGED notARVars

ARSpec == ARSpecInit /\ [][ARNext]_vars

\* The two queues of initialize_all_peers.
QueuesInit ==
    /\ DataQueueInit /\ PredictorsQueueInit /\ CoreIdle
    /\ ARIdle /\ SummaryIdle /\ FetchIdle /\ GridIdle /\ PairIdle
    /\ PeersIdle /\ LockIdle

\* Player processes feeding data_queue, the trainer's data flow draining it.
DataQueueNext ==
    \/ dq_put_call /\ UNCHANGED notDataQueueVars
    \/ dq_put_done /\ UNCHANGED notDataQueueVars
    \/ dq_get /\ UNCHANGED notDataQueueVars

DataQueueSpec == QueuesInit /\ [][DataQueueNext]_vars

\* Players' prediction requests and the predictor threads serving them.
PredQueueNext ==
    \/ pq_put /\ UNCHANGED notPredictorsQueueVars
    \/ pq_get /\ UNCHANGED notPredictorsQueueVars

PredQueueSpec == QueuesInit /\ [][PredQueueNext]_vars

\* One key of a SummaryHistoryManager under the calls that type it, record
\* scalars and average them.
SummarySpecInit ==
    /\ SummaryInit /\ CoreIdle
    /\ ARIdle /\ QueueIdle /\ FetchIdle /\ GridIdle /\ PairIdle
    /\ PeersIdle /\ LockIdle

SummaryNext ==
    \/ set_type /\ UNCHANGED notSummaryVars
    \/ put_scalar /\ UNCHANGED notSummaryVars
    \/ put_summaries /\ UNCHANGED notSummaryVars
    \/ put_summary_history_scalar /\ UNCHANGED notSummaryVars
    \/ summary_average /\ UNCHANGED notSummaryVars

SummarySpec == SummarySpecInit /\ [][SummaryNext]_vars

\* An async_scalar key: other threads record values while the trainer's
\* epoch:after handler averages and moves the offset.
AsyncSpecInit ==
    /\ AsyncSummaryInit /\ CoreIdle
    /\ ARIdle /\ QueueIdle /\ FetchIdle /\ GridIdle /\ PairIdle
    /\ PeersIdle /\ LockIdle

AsyncNext ==
    \/ put_async_scalar /\ UNCHANGED notSummaryVars
    \/ epoch_average /\ UNCHANGED notSummaryVars
    \/ epoch_update_last_query /\ UNCHANGED notSummaryVars

AsyncSpec == AsyncSpecInit /\ [][AsyncNext]_vars

\* A session with three variables.
FetchSpecInit ==
    /\ FetchInit /\ CoreIdle
    /\ ARIdle /\ QueueIdle /\ SummaryIdle /\ GridIdle /\ PairIdle
    /\ PeersIdle /\ LockIdle

FetchNext ==
    \/ assign_variable /\ UNCHANGED notFetchVars
    \/ fetch_variable_call /\ UNCHANGED notFetchVars
    \/ fetch_variables_call /\ UNCHANGED notFetchVars

FetchSpec == FetchSpecInit /\ [][FetchNext]_vars

\* image_grid on a list of images of one shape.
GridSpecInit ==
    /\ GridInit /\ CoreIdle
    /\ ARIdle /\ QueueIdle /\ SummaryIdle /\ FetchIdle /\ PairIdle
    /\ PeersIdle /\ LockIdle

GridNext ==
    \/ image_grid_call /\ UNCHANGED notGridVars

GridSpec == GridSpecInit /\ [][GridNext]_vars

\* Worker threads in _try_post_pair, over an empty pool.
PairSpecInit ==
    /\ PairInit /\ CollectorIdle /\ PoolInit /\ maxlen = MaxLen
    /\ TrainerIdle /\ EnvIdle /\ BoxIdle /\ RLIdle
    /\ ARIdle /\ QueueIdle /\ SummaryIdle /\ FetchIdle /\ GridIdle
    /\ PeersIdle /\ LockIdle

PairNext ==
    \/ tpp_call /\ UNCHANGED <<pair_buffer, poolVars, notPairVars>>
    \/ tpp_acquire /\ UNCHANGED <<pair_buffer, poolVars, notPairVars>>
    \/ tpp_append /\ UNCHANGED <<poolVars, notPairVars>>
    \/ tpp_check /\ UNCHANGED notPairVars

PairSpec == PairSpecInit /\ [][PairNext]_vars

\* train() with a collector that may refuse for ever.  Every step of train()
\* terminates, and a readiness check that is asked again and again answers
\* true again and again.
TrainLiveNext ==
    \/ TriggerInitializationBefore /\ UNCHANGED notTrainVars
    \/ Initialize /\ UNCHANGED notTrainVars
    \/ TriggerInitializationAfter /\ UNCHANGED notTrainVars
    \/ TriggerOptimizationBefore /\ UNCHANGED notTrainVars
    \/ DryRunPass /\ UNCHANGED notTrainVars
    \/ ReadyPass /\ UNCHANGED notTrainVars
    \/ SkippedPass /\ UNCHANGED notTrainVars
    \/ TriggerOptimizationAfter /\ UNCHANGED notTrainVars
    \/ TriggerFinalizationBegin /\ UNCHANGED notTrainVars
    \/ Finalize /\ UNCHANGED notTrainVars
    \/ TriggerFinalizationAfter /\ UNCHANGED notTrainVars
    \/ SetStopSignal /\ UNCHANGED notTrainVars

TrainLiveFairness ==
    /\ WF_vars(TriggerInitializationBefore /\ UNCHANGED notTrainVars)
    /\ WF_vars(Initialize /\ UNCHANGED notTrainVars)
    /\ WF_vars(TriggerInitializationAfter /\ UNCHANGED notTrainVars)
    /\ WF_vars(TriggerOptimizationBefore /\ UNCHANGED notTrainVars)
    /\ WF_vars(DryRunPass /\ UNCHANGED notTrainVars)
    /\ SF_vars(ReadyPass /\ UNCHANGED notTrainVars)
    /\ WF_vars(TriggerOptimizationAfter /\ UNCHANGED notTrainVars)
    /\ WF_vars(TriggerFinalizationBegin /\ UNCHANGED notTrainVars)
    /\ WF_vars(Finalize /\ UNCHANGED notTrainVars)
    /\ WF_vars(TriggerFinalizationAfter /\ UNCHANGED notTrainVars)

TrainLiveSpec == TrainInit /\ [][TrainLiveNext]_vars /\ TrainLiveFairness

\* The rollout side of the collector alone: workers posting frames.
VideoNext ==
    \/ post_state /\ UNCHANGED notCollectorVars

VideoSpec == CollectorSpecInit /\ [][VideoNext]_vars

\* An async_scalar key under recording, averaging, moving the offset and
\* clearing.
ClearNext ==
    \/ put_async_scalar /\ UNCHANGED notSummaryVars
    \/ summary_average /\ UNCHANGED notSummaryVars
    \/ update_last_query /\ UNCHANGED notSummaryVars
    \/ clear /\ UNCHANGED notSummaryVars
    \/ clear_all /\ UNCHANGED notSummaryVars

ClearSpec == AsyncSpecInit /\ [][ClearNext]_vars

notPeersVars == <<coreVars, arVars, queueVars, summaryVars, fetchVars, gridVars, pairVars, lockVars>>

\* One call of initialize_all_peers.
PeersSpecInit ==
    /\ PeersInit /\ CoreIdle
    /\ ARIdle /\ QueueIdle /\ SummaryIdle /\ FetchIdle /\ GridIdle /\ PairIdle
    /\ LockIdle

PeersNext ==
    \/ peers_create_router /\ UNCHANGED notPeersVars
    \/ peers_register /\ UNCHANGED notPeersVars
    \/ peers_create_queues /\ UNCHANGED notPeersVars
    \/ peers_router_initialize /\ UNCHANGED notPeersVars
    \/ peers_create_player /\ UNCHANGED notPeersVars
    \/ peers_start_player /\ UNCHANGED notPeersVars
    \/ peers_create_predictor /\ UNCHANGED notPeersVars
    \/ peers_start_predictor /\ UNCHANGED notPeersVars

PeersSpec == PeersSpecInit /\ [][PeersNext]_vars

\* Two rollout threads in _try_post_pair and pool.push, the web thread in
\* pool.pop, every _process completing.
notLockVars == <<trainVars, collectorButPairBuffer, envVars, boxVars, rlVars, arVars, queueVars,
                 summaryVars, fetchVars, gridVars, peersVars, poolLastCall>>

LockSpecInit ==
    /\ PairInit /\ LockInit /\ CollectorIdle /\ PoolInit /\ maxlen = MaxPairs
    /\ TrainerIdle /\ EnvIdle /\ BoxIdle /\ RLIdle
    /\ ARIdle /\ QueueIdle /\ SummaryIdle /\ FetchIdle /\ GridIdle
    /\ PeersIdle

LockNext ==
    \/ lk_call(MaxWindows) /\ UNCHANGED <<pair_buffer, poolData, data_pool_lock, lockVars, notLockVars>>
    \/ tpp_acquire /\ UNCHANGED <<pair_buffer, poolData, data_pool_lock, lockVars, notLockVars>>
    \/ tpp_append /\ UNCHANGED <<poolData, data_pool_lock, lockVars, notLockVars>>
    \/ lk_check /\ UNCHANGED <<pair_buffer, poolData, data_pool_lock, lockVars, notLockVars>>
    \/ lk_push_acquire /\ UNCHANGED <<pair_buffer, poolData, lockVars, notLockVars>>
    \/ lk_push_body /\ UNCHANGED <<pair_buffer, nr_uids, disk, web_pc, lk_returned, lk_raised, lk_pops, notLockVars>>
    \/ lk_clear /\ UNCHANGED <<poolData, data_pool_lock, lockVars, notLockVars>>
    \/ web_pop_call /\ UNCHANGED <<pairVars, pair_buffer, poolData, data_pool_lock, lk_evicted, lk_returned, lk_raised, notLockVars>>
    \/ web_pop_acquire /\ UNCHANGED <<pairVars, pair_buffer, poolData, lk_evicted, lk_returned, lk_raised, lk_pops, notLockVars>>
    \/ web_pop_body /\ UNCHANGED <<pairVars, pair_buffer, data_pool_counter, nr_pushed, pushed, lk_evicted, lk_raised, lk_pops, notLockVars>>

LockSpec == LockSpecInit /\ [][LockNext]_vars

\* The same threads where _process may raise.  Every step inside a with
\* block terminates, and a lock that stays free is taken by a thread that
\* waits for it; nobody is obliged to make a call.
LockFairNext ==
    \/ lk_call(MaxFairWindows) /\ UNCHANGED <<pair_buffer, poolData, data_pool_lock, lockVars, notLockVars>>
    \/ tpp_acquire /\ UNCHANGED <<pair_buffer, poolData, data_pool_lock, lockVars, notLockVars>>
    \/ tpp_append /\ UNCHANGED <<poolData, data_pool_lock, lockVars, notLockVars>>
    \/ lk_check /\ UNCHANGED <<pair_buffer, poolData, data_pool_lock, lockVars, notLockVars>>
    \/ lk_push_acquire /\ UNCHANGED <<pair_buffer, poolData, lockVars, notLockVars>>
    \/ lk_push_body /\ UNCHANGED <<pair_buffer, nr_uids, disk, web_pc, lk_returned, lk_raised, lk_pops, notLockVars>>
    \/ lk_clear /\ UNCHANGED <<poolData, data_pool_lock, lockVars, notLockVars>>
    \/ web_pop_call /\ UNCHANGED <<pairVars, pair_buffer, poolData, data_pool_lock, lk_evicted, lk_returned, lk_raised, notLockVars>>
    \/ web_pop_acquire /\ UNCHANGED <<pairVars, pair_buffer, poolData, lk_evicted, lk_returned, lk_raised, lk_pops, notLockVars>>
    \/ web_pop_body /\ UNCHANGED <<pairVars, pair_buffer, data_pool_counter, nr_pushed, pushed, lk_evicted, lk_raised, lk_pops, notLockVars>>
    \/ web_pop_raise /\ UNCHANGED <<pairVars, pair_buffer, data_pool_counter, nr_pushed, disk, pushed, lk_evicted, lk_returned, lk_pops, notLockVars>>

LockFairness ==
    /\ WF_vars(tpp_acquire /\ UNCHANGED <<pair_buffer, poolData, data_pool_lock, lockVars, notLockVars>>)
    /\ WF_vars(tpp_append /\ UNCHANGED <<poolData, data_pool_lock, lockVars, notLockVars>>)
    /\ WF_vars(lk_check /\ UNCHANGED <<pair_buffer, poolData, data_pool_lock, lockVars, notLockVars>>)
    /\ WF_vars(lk_push_acquire /\ UNCHANGED <<pair_buffer, poolData, lockVars, notLockVars>>)
    /\ WF_vars(lk_push_body /\ UNCHANGED <<pair_buffer, nr_uids, disk, web_pc, lk_returned, lk_raised, lk_pops, notLockVars>>)
    /\ WF_vars(lk_clear /\ UNCHANGED <<poolData, data_pool_lock, lockVars, notLockVars>>)
    /\ WF_vars(web_pop_acquire /\ UNCHANGED <<pairVars, pair_buffer, poolData, lk_evicted, lk_returned, lk_raised, lk_pops, notLockVars>>)
    /\ WF_vars(web_pop_body /\ UNCHANGED <<pairVars, pair_buffer, data_pool_counter, nr_pushed, pushed, lk_evicted, lk_raised, lk_pops, notLockVars>>)

LockFairSpec == LockSpecInit /\ [][LockFairNext]_vars /\ LockFairness

\* ================================================================= claims

\* Number of occurrences of e in the sequence s.
Count(s, e) == Cardinality({i \in 1..Len(s) : s[i] = e})

Range(s) == {s[i] : i \in 1..Len(s)}

\* What the step from the current state to the next appended to the trace.
Fired == SubSeq(trace', Len(trace) + 1, Len(trace'))

\* The step is one pass of the while loop of train().
IsLoopPass == pc = "loop" /\ pc' = "loop" /\ trace' # trace

LoopEvents == {"epoch:before", "iter:before", "run_step", "iter:after", "epoch:after",
               "ready_for_step:True", "ready_for_step:False"}

Lifecycle == <<"initialization:before", "initialize()", "initialization:after",
               "optimization:before", "optimization:after", "finalization:begin",
               "finalize()", "finalization:after">>

IsLifecycleEvent(e) == e \in Range(Lifecycle)

LifecycleOf(s) == SelectSeq(s, IsLifecycleEvent)

\* ---------------------------------------------------------------- C1
\* C1: in every pass of the loop of train() taken with iter >= 1 the readiness
\* check is consulted once; when it answers false the pass performs no
\* optimization step and leaves iter unchanged, when it answers true the pass
\* performs exactly one optimization step and iter grows by exactly one.
C1_StepGating ==
    [][(IsLoopPass /\ runtime["iter"] >= 1) =>
        /\ Fired[1] \in {"ready_for_step:True", "ready_for_step:False"}
        /\ Count(Fired, "ready_for_step:True") + Count(Fired, "ready_for_step:False") = 1
        /\ Fired[1] = "ready_for_step:False" =>
            /\ Count(Fired, "run_step") = 0
            /\ runtime'["iter"] = runtime["iter"]
        /\ Fired[1] = "ready_for_step:True" =>
            /\ Count(Fired, "run_step") = 1
            /\ runtime'["iter"] = runtime["iter"] + 1]_vars

\* A run in which one attempt was skipped and a later one went through.
C1_Witness ==
    \E i, j \in 1..Len(trace) :
        /\ i < j
        /\ trace[i] = "ready_for_step:False"
        /\ trace[j] = "ready_for_step:True"
        /\ trace[Len(trace)] \in {"iter:after", "epoch:after"}

\* ---------------------------------------------------------------- C2
\* C2: when train() started without a preset iter and the stop signal has not
\* been set, then once optimization:after has fired exactly nr_iters
\* optimization steps have been performed, however many attempts were skipped.
C2_StepsEqualNrIters ==
    ("optimization:after" \in Range(trace) /\ ~iter_preset /\ ~stop_signal)
        => Count(trace, "run_step") = nr_iters

\* A gated run that finished its loop after skipped attempts.
C2_Witness ==
    /\ "optimization:after" \in Range(trace)
    /\ ~iter_preset
    /\ ~stop_signal
    /\ nr_iters >= 2
    /\ nr_skipped >= 2
    /\ Count(trace, "run_step") = nr_iters

\* ---------------------------------------------------------------- C3
\* C3: the lifecycle events of train() occur in the order initialization:before,
\* initialize(), initialization:after, optimization:before, optimization:after,
\* finalization:begin, finalize(), finalization:after, each exactly once in a
\* complete run, and every optimization step and iter/epoch event of the loop
\* lies after optimization:before and before optimization:after.
C3_LifecycleOrder ==
    /\ LifecycleOf(trace) = SubSeq(Lifecycle, 1, Len(LifecycleOf(trace)))
    /\ pc = "done" => LifecycleOf(trace) = Lifecycle
    /\ \A i \in 1..Len(trace) :
        trace[i] \in LoopEvents =>
            /\ \E j \in 1..(i - 1) : trace[j] = "optimization:before"
            /\ \A j \in 1..(i - 1) : trace[j] # "optimization:after"

\* A complete run with a dry run, a skipped attempt and two real steps.
C3_Witness ==
    /\ pc = "done"
    /\ Count(trace, "run_step") >= 2
    /\ Count(trace, "ready_for_step:False") >= 1
    /\ Count(trace, "epoch:before") >= 2

\* ---------------------------------------------------------------- C4
\* C4: the loop pass taken while iter == 0 fires exactly epoch:before,
\* iter:before, iter:after, epoch:after in that order, with no optimization
\* step and without consulting the readiness check.
C4_DryRunEvents ==
    [][(IsLoopPass /\ runtime["iter"] = 0) =>
        Fired = <<"epoch:before", "iter:before", "iter:after", "epoch:after">>]_vars

\* The state right after the dry run.
C4_Witness ==
    /\ pc = "loop"
    /\ Len(trace) = 8
    /\ trace[4] = "optimization:before"
    /\ SubSeq(trace, 5, 8) = <<"epoch:before", "iter:before", "iter:after", "epoch:after">>

\* ---------------------------------------------------------------- C5
\* C5 as stated: the dry-run pass leaves iter as it found it.
C5_DryRunKeepsIter ==
    [][(IsLoopPass /\ runtime["iter"] = 0) => runtime'["iter"] = runtime["iter"]]_vars

\* C5, amended: the dry-run pass performs no optimization step and advances
\* iter by exactly one, from 0 to 1 (and clears zero_iter).
C5_DryRunAdvancesIterByOne ==
    [][(IsLoopPass /\ runtime["iter"] = 0) =>
        /\ Count(Fired, "run_step") = 0
        /\ runtime'["iter"] = 1
        /\ runtime'["zero_iter"] = FALSE]_vars

\* The dry run has just run in a trainer that started without an iter.
C5_Witness ==
    /\ pc = "loop"
    /\ ~iter_preset
    /\ runtime["iter"] = 1
    /\ runtime["zero_iter"] = FALSE
    /\ Count(trace, "iter:before") = 1
    /\ Count(trace, "run_step") = 0


\* ------------------------------------------------------- pool helpers

\* The step is a call of push.
IsPush == nr_pushed' = nr_pushed + 1

\* The step is a call of pop (pop is the only call that leaves popped_any set
\* and builds no wrapper); a pop that changes nothing is a stuttering step.
IsPop == last_op' = "pop" /\ nr_pushed' = nr_pushed

\* a is ordered before b by (priority, insertion counter).
KeyLess(a, b) ==
    \/ a.priority < b.priority
    \/ a.priority = b.priority /\ a.count < b.count

\* Every push so far had a strictly greater priority than the one before.
StrictlyIncreasingPushes ==
    \A i \in 1..(Len(pushed) - 1) : pushed[i].priority < pushed[i + 1].priority

\* ---------------------------------------------------------------- C6
\* C6: the number of pairs held by a pool of capacity N never exceeds N.
C6_PoolBound == Len(data_pool) <= maxlen

C8_NoEvictionUpToCapacity ==
    (maxlen >= 1 /\ ~popped_any /\ nr_pushed <= maxlen)
        => /\ Len(data_pool) = nr_pushed
           /\ Range(data_pool) = Range(pushed)

\* ---------------------------------------------------------------- C9
\* C9: a pop on a non-empty pool removes the entry with the greatest
\* (priority, insertion counter) held and returns its pair under a fresh
\* identifier; with no push in between, the next pop returns a pair of lower
\* or equal priority, and of equal priority only with a smaller counter.
C9_PopReturnsGreatest ==
    [][(IsPop /\ data_pool # <<>>) =>
        /\ Len(ret'.entry) = 1
        /\ ret'.entry[1] \in Range(data_pool)
        /\ \A e \in Range(data_pool) \ {ret'.entry[1]} : KeyLess(e, ret'.entry[1])
        /\ Range(data_pool') = Range(data_pool) \ {ret'.entry[1]}
        /\ Len(data_pool') = Len(data_pool) - 1
        /\ Len(ret'.pair) = 1
        /\ ret'.pair[1].id = ret'.entry[1].pair.id
        /\ Len(ret'.uid) = 1
        /\ (last_op = "pop" /\ Len(ret.entry) = 1) =>
            /\ ret'.entry[1].priority <= ret.entry[1].priority
            /\ ret'.entry[1].priority = ret.entry[1].priority
                => ret'.entry[1].count < ret.entry[1].count]_vars

\* In a pool of capacity at least 1, two pops in a row have each returned a
\* pair, the second of the same priority as the first, and one more is held.
C9_Witness ==
    /\ maxlen >= 1
    /\ last_op = "pop"
    /\ pops_in_row = 2
    /\ Len(ret.entry) = 1
    /\ data_pool # <<>>
    /\ \E e \in Range(pushed) :
        /\ e.priority = ret.entry[1].priority
        /\ e.count > ret.entry[1].count
        /\ e \notin Range(data_pool)
    /\ Len(ret.entry) = 1
    /\ data_pool # <<>>

\* --------------------------------------------------------------- C10
\* C10: a pop on an empty pool returns (None, None), leaves the pool empty,
\* draws no identifier, writes nothing, and leaves the pool lock released.
C10_PopOnEmpty ==
    [][(IsPop /\ data_pool = <<>>) =>
        /\ ret'.uid = None
        /\ ret'.pair = None
        /\ data_pool' = <<>>
        /\ nr_uids' = nr_uids
        /\ disk' = disk
        /\ data_pool_lock' = FALSE]_vars

\* Every pop so far found the pool empty, and a later push went through.
C10_Witness ==
    /\ popped_any
    /\ disk = {}
    /\ nr_uids = 0
    /\ last_op = "push"
    /\ data_pool # <<>>

\* ------------------------------------------------- collector helpers

RECURSIVE SumVariance(_)
\* The summed variance of a sequence of frames.
SumVariance(frames) ==
    IF frames = <<>> THEN 0 ELSE frames[1].variance + SumVariance(Tail(frames))

\* The step is a call of post_preference that did something new.
IsPostPreference ==
    \/ pref_log' # pref_log
    \/ training_data' # training_data
    \/ pref_files' # pref_files

\* --------------------------------------------------------------- C11
\* C11: the frames of every extraction are V contiguous frames of the full
\* window, and no contiguous sub-window of V frames of that window has a
\* greater summed variance.
C11_ExtractsMaximalWindow ==
    \A n \in 1..Len(videos) :
        LET v == videos[n] IN
        /\ Len(v.window) = window_length
        /\ \E k \in 0..(window_length - video_length) :
            v.frames = SubSeq(v.window, k + 1, k + video_length)
        /\ \A k \in 0..(window_length - video_length) :
            SumVariance(SubSeq(v.window, k + 1, k + video_length)) <= SumVariance(v.frames)

\* --------------------------------------------------------------- C12
\* C12: the priority of every pair pushed is the summed variance of the frames
\* of its side 1 plus the summed variance of the frames of its side 2.
C12_PriorityIsSumOfSides ==
    \A n \in 1..Len(pair_sides) :
        /\ pushed[n].priority = pair_sides[n].priority
        /\ pair_sides[n].priority
            = SumVariance(pair_sides[n].t1) + SumVariance(pair_sides[n].t2)

\* --------------------------------------------------------------- C13
\* C13: within a post_preference call the example is handed to the reward
\* predictor only after pair.pkl was loaded and pref.txt written, the
\* preference on disk is then the one submitted, and a call in which the load
\* or the write raised hands the reward predictor nothing.
C13_PersistedBeforeHandedOver ==
    [][IsPostPreference =>
        /\ \A i \in 1..Len(pref_log') :
            pref_log'[i] = "add_training_data" =>
                /\ \E j \in 1..(i - 1) : pref_log'[j] = "load:ok"
                /\ \E j \in 1..(i - 1) : pref_log'[j] = "dump:ok"
        /\ ("load:raise" \in Range(pref_log') \/ "dump:raise" \in Range(pref_log'))
            => training_data' = training_data
        /\ training_data' # training_data =>
            /\ Len(training_data') = Len(training_data) + 1
            /\ SubSeq(training_data', 1, Len(training_data)) = training_data
            /\ \E f \in pref_files' :
                /\ f.pref = training_data'[Len(training_data')].pref
                /\ \E r \in disk : r.uid = f.uid /\ r.pkl = training_data'[Len(training_data')].pair
        /\ training_data' = training_data => pref_files' = pref_files]_vars

\* One submission went through and a later one failed at the write.
C13_Witness ==
    /\ Len(training_data) = 1
    /\ pref_files # {}
    /\ pref_log = <<"load:ok", "dump:raise">>

\* ----------------------------------------------------- store helpers

\* Every proper prefix of the key is absent or holds a mapping.
PrefixesOpen(e, p) == \A q \in Prefixes(p) : q \notin DOMAIN e \/ e[q].isdict

\* --------------------------------------------------------------- C14
\* C14: on every store and for every key whose proper prefixes are absent or
\* mappings, set(key, v) followed by get(key) returns v, and after the set
\* every proper prefix of the key holds a mapping.
C14_SetGetRoundTrip ==
    \A p \in KeyPaths, v \in Values :
        PrefixesOpen(envs, p) =>
            LET s == Set(envs, p, v)
                g == Get(s.envs, p, None) IN
            /\ ~s.raised
            /\ ~g.raised
            /\ g.ret = Leaf(v)
            /\ \A q \in Prefixes(p) : q \in DOMAIN s.envs /\ s.envs[q].isdict
            /\ \A q \in Prefixes(p) : q \in DOMAIN g.envs /\ g.envs[q].isdict

\* set("x.y.z", 1) has just returned on a store it had to extend or rewrite,
\* and a get of the key gives the value back.
C14_Witness ==
    /\ last_call.op = "set"
    /\ last_call.key = <<"x", "y", "z">>
    /\ last_call.arg = <<1>>
    /\ ~last_call.raised
    /\ envs[<<"x">>].isdict
    /\ envs[<<"x", "y">>].isdict
    /\ Get(envs, last_call.key, None).ret = Leaf(<<1>>)

C16_ReadsLeaveStoreAlone ==
    [][(\/ last_call'.op = "has"
        \/ last_call'.op = "get" /\ last_call'.arg = None)
       => envs' = envs]_vars

\* --------------------------------------------------------------- C17
\* C17: once a with_env block has been left, normally or by an exception, the
\* store's content is the content it had when the block was entered.
C17_RestoredOnExit ==
    last_call.op \in {"with_env:exit", "with_env:raise"} => envs = env_before

\* --------------------------------------------------------------- C18
\* C18: when the task of an EnvBox built with a snapshot has made its read,
\* the generator was reset with the seed captured at construction and the
\* read returned what the same call returns on the snapshot.
C18_TaskReadsSnapshot ==
    (box_pc = "done" /\ box_env # None) =>
        /\ rng_seed = <<box_seed>>
        /\ last_call.op = "get" =>
            last_call.ret = Get(box_env[1], last_call.key, last_call.arg).ret
        /\ last_call.op = "has" =>
            last_call.ret = Leaf(IF Has(box_env[1], last_call.key).ret THEN <<1>> ELSE None)

\* ------------------------------------------------- environment helpers

\* Every action of the trace is MOVE_RIGHT.
OnlyMoveRight == \A k \in 1..Len(rl_trace) : rl_trace[k].action = MOVE_RIGHT

\* --------------------------------------------------------------- C19
\* C19: for size >= 2, every step taken from a position in 0..size-2 follows
\* the reference transition (MOVE_RIGHT: position + 1, reward +1; MOVE_LEFT:
\* max(0, position - 1), reward -1; is_over iff the new position is size - 1),
\* and a run of MOVE_RIGHT steps from position 0 gives +1 each time and
\* is_over exactly on step size - 1.
C19_ReferenceTransition ==
    rl_size >= 2 =>
        /\ \A k \in 1..Len(rl_trace) :
            LET t == rl_trace[k] IN
            t.pos \in 0..(rl_size - 2) =>
                /\ t.action = MOVE_RIGHT => t.stepped = t.pos + 1 /\ t.reward = 1
                /\ t.action = MOVE_LEFT =>
                    /\ t.stepped = (IF t.pos = 0 THEN 0 ELSE t.pos - 1)
                    /\ t.reward = -1
                /\ t.is_over <=> (t.stepped = rl_size - 1)
        /\ (rl_trace # <<>> /\ rl_trace[1].pos = 0 /\ OnlyMoveRight) =>
            \A k \in 1..Len(rl_trace) :
                k <= rl_size - 1 =>
                    /\ rl_trace[k].reward = 1
                    /\ rl_trace[k].is_over <=> (k = rl_size - 1)

\* From position 0 of a size-4 environment three MOVE_RIGHT steps were taken
\* and the third one ended the episode.
C19_Witness ==
    /\ rl_size = 4
    /\ Len(rl_trace) = 3
    /\ rl_trace[1].pos = 0
    /\ OnlyMoveRight
    /\ rl_trace[3].is_over
    /\ rl_pos = <<3>>

\* --------------------------------------------------------------- C20
\* C20: with 1 <= L <= size - 1 and only MOVE_RIGHT actions since the restart,
\* the k-th action reports is_over iff k is a multiple of L, and every action
\* that follows an is_over step starts at position 0 with the length counter
\* at 0.
C20_OverEveryLimitSteps ==
    (1 <= rl_limit /\ rl_limit <= rl_size - 1 /\ OnlyMoveRight) =>
        /\ \A k \in 1..Len(rl_trace) :
            /\ rl_trace[k].is_over <=> (k % rl_limit = 0)
            /\ (k > 1 /\ rl_trace[k - 1].is_over) =>
                rl_trace[k].pos = 0 /\ rl_trace[k].cnt = 0
        /\ (rl_trace # <<>> /\ rl_trace[Len(rl_trace)].is_over) =>
            rl_pos = <<0>> /\ rl_cnt = 0

\* size 5, limit 3: the third MOVE_RIGHT was over and the fourth started from
\* position 0.
C20_Witness ==
    /\ rl_size = 5
    /\ rl_limit = 3
    /\ Len(rl_trace) = 4
    /\ OnlyMoveRight
    /\ rl_trace[3].is_over
    /\ ~rl_trace[4].is_over
    /\ rl_trace[4].pos = 0
    /\ rl_trace[4].cnt = 0

\* ------------------------------------------------------------------ C21

RECURSIVE ExpectedCalls(_)
\* What AutoRestart must have called on the inner environment for the returns
\* it gave: action each time, then finish and restart when the episode ended.
ExpectedCalls(rets) ==
    IF rets = <<>> THEN <<"restart">>
    ELSE LET last == rets[Len(rets)]
             before == ExpectedCalls(SubSeq(rets, 1, Len(rets) - 1))
         IN  before \o (IF last.inner_over THEN <<"action", "finish", "restart">>
                        ELSE <<"action">>)

\* C21: after one restart, every action call of AutoRestartProxyRLEnviron
\* returns the reward and is_over flag of the inner action, follows an inner
\* is_over by finish and then restart, once each, before returning, and so
\* never steps an inner episode that has already reported is_over.
C21_FinishThenRestartOnOver ==
    /\ \A k \in 1..Len(ar_rets) :
        /\ ar_rets[k].reward = ar_rets[k].inner_reward
        /\ ar_rets[k].is_over = ar_rets[k].inner_over
        /\ ~ar_rets[k].stale
    /\ ar_calls # <<>> => ar_calls = ExpectedCalls(ar_rets)
    /\ ar_calls # <<>> => ~ar_over

C21_Witness ==
    /\ Len(ar_rets) >= 3
    /\ ar_rets[1].inner_over
    /\ ~ar_rets[2].inner_over
    /\ ar_rets[3].inner_over

\* ------------------------------------------------------------------ C22

\* C22: the training-sample queue has capacity batch_size times
\* a3c.data_queue_length_factor (16 when unset); it never holds more, so a put
\* on a full queue waits for a get, and what was dequeued followed by what is
\* queued is every sample enqueued, in the order of enqueuing.
C22_DataQueueBackpressure ==
    /\ data_queue_maxsize =
           batch_size * (IF length_factor = None THEN 16 ELSE length_factor[1])
    /\ Len(data_queue) <= data_queue_maxsize
    /\ dq_got \o data_queue = [i \in 1..(dq_next - 1) |-> i]

C22_Witness ==
    /\ length_factor = None
    /\ Len(data_queue) = batch_size * 16
    /\ \E p \in Producers : dq_pending[p]
    /\ dq_got # <<>>

\* ------------------------------------------------------------------ C23

\* C23: the prediction-request queue has a finite capacity, and the requests
\* pending never outnumber it.
C23_PredictorsQueueBounded ==
    predictors_queue # <<>> =>
        /\ predictors_queue_maxsize > 0
        /\ Len(predictors_queue) <= predictors_queue_maxsize

\* ------------------------------------------------------------------ C24

\* The last m values of vs.
LastValues(vs, m) == [i \in 1..m |-> vs[Len(vs) - m + i]]

Total(vs) == SumOver(vs, Len(vs))

Greatest(vs) == CHOOSE x \in Range(vs) : \A y \in Range(vs) : y <= x

\* C24: for a scalar key, average(key, top_k, meth) with top_k >= 1
\* aggregates the last min(top_k, len) recorded values, and all of them with
\* top_k omitted: 'sum' is their sum, 'max' their maximum, 'avg' their sum
\* over their count plus 1e-4 (numerator and denominator both times 10000).
C24_AverageOfLastTopK ==
    LET c == summary_call
        m == IF c.top_k = None \/ c.top_k[1] >= Len(summaries) THEN Len(summaries)
             ELSE c.top_k[1]
        last == LastValues(summaries, m)
    IN  (c.op = "average" /\ summaries_type = "scalar" /\ (c.top_k = None \/ c.top_k[1] >= 1)) =>
            /\ c.meth = "sum" => c.result = [kind |-> "value", num |-> Total(last), den |-> 1]
            /\ (c.meth = "max" /\ last # <<>>) =>
                   c.result = [kind |-> "value", num |-> Greatest(last), den |-> 1]
            /\ c.meth = "avg" =>
                   c.result = [kind |-> "value", num |-> Total(last) * 10000,
                               den |-> m * 10000 + 1]

C24_Witness ==
    /\ summary_call.op = "average"
    /\ summaries_type = "scalar"
    /\ summaries = <<1, 1, 1, 2>>
    /\ summary_call.top_k = <<2>>
    /\ summary_call.meth = "avg"
    /\ summary_call.result = [kind |-> "value", num |-> 30000, den |-> 20001]

\* ------------------------------------------------------------------ C25

\* The step is a set_type with check=False.
IsUncheckedSetType == summary_call'.op = "set_type" /\ ~summary_call'.check

\* The step is a checked call that sets the key's type.
IsCheckedTyping ==
    /\ summary_call' # summary_call \/ summaries' # summaries
    /\ summary_call'.op \in {"set_type", "put_summaries", "put_summary_history_scalar"}
    /\ summary_call'.check

\* C25: once a key's type is scalar or async_scalar, no set_type with
\* checking, put_summaries or put_summary_history_scalar changes it; such a
\* call with another type fails its assertion.
C25_TypeSetOnce ==
    [][summaries_type # "unknown" =>
          /\ ~IsUncheckedSetType => summaries_type' = summaries_type
          /\ (IsCheckedTyping /\ summary_call'.type # summaries_type) => summary_call'.raised
      ]_vars

C25_Witness ==
    /\ summaries_type = "async_scalar"
    /\ summary_call.op = "put_summaries"
    /\ summary_call.raised

\* ------------------------------------------------------------------ C26

\* C26: every value recorded for an async_scalar key enters the average of
\* exactly one epoch: none twice, and none that the offset has passed was
\* left out.
C26_ConsumedExactlyOnce ==
    \A i \in 1..Len(epoch_included) :
        /\ epoch_included[i] <= 1
        /\ i <= summaries_last_query => epoch_included[i] = 1

\* ------------------------------------------------------------------ C27

\* The session.run calls of the last fetch that were fetches, initializations.
RunsOf(what) == {i \in 1..Len(fetch_call.log) : fetch_call.log[i].run = what}

\* C27: fetch_variable fetches at most twice and initializes at most once;
\* it initializes only after a first fetch failed on an uninitialized
\* variable, then retries once and raises what the retry raised; a first
\* fetch that succeeds is the only session.run it makes.
C27_InitializeThenRetryOnce ==
    LET log == fetch_call.log IN
    fetch_call.op = "fetch_variable" =>
        /\ Cardinality(RunsOf("fetch")) <= 2
        /\ Cardinality(RunsOf("init")) <= 1
        /\ log[1].run = "fetch"
        /\ log[1].outcome = "ok" => (Len(log) = 1 /\ fetch_call.error = "none")
        /\ \A i \in RunsOf("init") :
               /\ i = 2
               /\ log[1].outcome = "FailedPreconditionError"
               /\ log[2].outcome = "ok" =>
                      /\ Len(log) = 3
                      /\ log[3].run = "fetch"
                      /\ fetch_call.error =
                             (IF log[3].outcome = "ok" THEN "none" ELSE log[3].outcome)
        /\ log[1].outcome = "FailedPreconditionError" => RunsOf("init") # {}

C27_Witness ==
    /\ fetch_call.op = "fetch_variable"
    /\ Len(fetch_call.log) = 3
    /\ fetch_call.log[1].outcome = "FailedPreconditionError"
    /\ fetch_call.log[3].outcome = "RuntimeError"
    /\ fetch_call.error = "RuntimeError"

\* ------------------------------------------------------------------ C28

\* C28: fetch_variables on a list with an uninitialized variable raises the
\* ValueError, after one fetch and no initialization.
C28_UninitializedIsValueError ==
    (/\ fetch_call.op = "fetch_variables"
     /\ fetch_call.log[1].outcome = "FailedPreconditionError") =>
        /\ fetch_call.error = "ValueError"
        /\ Len(fetch_call.log) = 1

\* ------------------------------------------------------------------ C29

RECURSIVE ProductOver(_, _)
ProductOver(f, n) == IF n = 0 THEN 1 ELSE f[n] * ProductOver(f, n - 1)

\* The product of the explicit counts of a description.
Explicit(desc) ==
    ProductOver([i \in 1..Len(desc) |->
                    IF desc[i].count = None THEN 1 ELSE desc[i].count[1]], Len(desc))

Bare(desc) == {i \in 1..Len(desc) : desc[i].count = None}

\* The per-axis counts of a description of n images, a bare axis taking n
\* over the product of the explicit counts.
CountsOf(desc, n) ==
    [i \in 1..Len(desc) |->
        IF desc[i].count = None THEN n \div Explicit(desc) ELSE desc[i].count[1]]

\* The product of the counts of the axes in one direction.
Along(desc, n, axis) ==
    ProductOver([i \in 1..Len(desc) |->
                    IF desc[i].axis = axis THEN CountsOf(desc, n)[i] ELSE 1], Len(desc))

\* A description of at least one axis, with at most one bare axis, whose
\* counts multiply to n.
Describes(desc, n) ==
    /\ desc # <<>>
    /\ Cardinality(Bare(desc)) <= 1
    /\ ProductOver(CountsOf(desc, n), Len(desc)) = n

\* C29: for n images of shape (H, W, C) and a description whose counts
\* multiply to n, image_grid returns an image of shape (H times the product
\* of the 'v' counts, W times the product of the 'h' counts, C).
C29_GridShape ==
    LET n == Len(grid_images) IN
    (grid_result # NoGrid /\ Describes(grid_desc, n)) =>
        grid_result = [kind |-> "image",
                       h |-> grid_images[1].h * Along(grid_desc, n, "v"),
                       w |-> grid_images[1].w * Along(grid_desc, n, "h"),
                       c |-> grid_images[1].c]

C29_Witness ==
    /\ Len(grid_images) = 6
    /\ grid_images[1] = [kind |-> "image", h |-> 1, w |-> 2, c |-> 3]
    /\ grid_desc = << [count |-> <<3>>, axis |-> "h"], [count |-> <<2>>, axis |-> "v"] >>
    /\ grid_result = [kind |-> "image", h |-> 2, w |-> 6, c |-> 3]

\* ------------------------------------------------------------------ C30

\* C30: whenever the pair mutex is free the pair buffer holds at most one
\* entry and the sub-windows that got the mutex are, in that order, the sides
\* of the pairs pushed followed by the buffered one, if any; the k-th pair is
\* made of the (2k-1)-th and the 2k-th of them.
C30_PairsInAcquisitionOrder ==
    /\ \A k \in 1..Len(tpp_pairs) :
        /\ 2 * k <= Len(tpp_order)
        /\ tpp_pairs[k] = <<tpp_order[2 * k - 1], tpp_order[2 * k]>>
    /\ Len(tpp_pairs) = nr_pushed
    /\ pair_mutex = None =>
        /\ Len(pair_buffer) <= 1
        /\ Len(tpp_order) = 2 * Len(tpp_pairs) + Len(pair_buffer)
        /\ pair_buffer # <<>> => pair_buffer[1].frames = tpp_order[Len(tpp_order)]

C30_Witness ==
    /\ pair_mutex = None
    /\ Len(tpp_pairs) = 1
    /\ tpp_pairs[1][1] > tpp_pairs[1][2]
    /\ Len(pair_buffer) = 1
    /\ \E t \in PairThreads : tpp_pc[t] = "acquire"

\* ------------------------------------------------------------------ C31

\* The last four events of a trace.
Ending(s) == SubSeq(s, Len(s) - 3, Len(s))

\* C31: with the stop signal set no step of train() fires an event of the
\* loop, whatever the readiness check would answer, and a run that ends with
\* the signal set ends with optimization:after, finalization:begin,
\* finalize(), finalization:after.
C31_StopSignalLeavesLoop ==
    [][/\ stop_signal => \A i \in 1..Len(Fired) : Fired[i] \notin LoopEvents
       /\ (stop_signal /\ pc = "loop") => (trace' # trace => pc' = "finalization:begin")
       /\ (stop_signal' /\ pc' = "done") =>
              /\ Len(trace') >= 4
              /\ Ending(trace') = SubSeq(Lifecycle, 5, 8)
      ]_vars

\* A run stopped by the signal right after a refused step, with iterations
\* left to do.
C31_Witness ==
    /\ pc = "done"
    /\ stop_signal
    /\ runtime["iter"] <= nr_iters
    /\ Len(trace) >= 5
    /\ trace[Len(trace) - 4] = "ready_for_step:False"

\* ------------------------------------------------------------------ C33

\* C33: when every step of train() terminates and the readiness check cannot
\* answer false for ever, train() leaves its loop and reaches
\* finalization:after.
C33_TrainTerminates == <>(pc = "done")

\* A run that was refused as often as the trace records and still did all its
\* iterations.
C33_Witness ==
    /\ pc = "done"
    /\ ~stop_signal
    /\ nr_skipped = MaxSkips
    /\ nr_iters >= 2
    /\ Count(trace, "run_step") = nr_iters

\* ------------------------------------------------------------------ C34

\* The frames are one worker's, consecutive in the order it posted them.
ConsecutivePosts(frames) ==
    \A j \in 1..Len(frames) :
        /\ frames[j].worker = frames[1].worker
        /\ frames[j].idx = frames[1].idx + (j - 1)

\* C34: every extracted sub-window is exactly V frames that one worker posted
\* consecutively, in posting order; both sides of every pushed pair are V
\* frames long; and no posted frame is in two extracted sub-windows.
C34_SubWindowsAreConsecutiveAndDisjoint ==
    /\ \A n \in 1..Len(videos) :
        /\ Len(videos[n].frames) = video_length
        /\ ConsecutivePosts(videos[n].frames)
    /\ \A n \in 1..Len(pair_sides) :
        /\ Len(pair_sides[n].t1) = video_length
        /\ Len(pair_sides[n].t2) = video_length
    /\ \A n, m \in 1..Len(videos) :
        n # m => \A i, j \in 1..video_length :
            \/ videos[n].frames[i].worker # videos[m].frames[j].worker
            \/ videos[n].frames[i].idx # videos[m].frames[j].idx

\* One worker filled its window twice, and the two sub-windows made a pair.
C34_Witness ==
    /\ video_length = 2
    /\ window_length = 3
    /\ Len(videos) = 2
    /\ videos[1].frames[1].worker = videos[2].frames[1].worker
    /\ Len(pair_sides) = 1

\* ------------------------------------------------------------------ C37

\* C37: the last-query offset of an async_scalar key never exceeds the number
\* of values recorded for it.
C37_OffsetWithinValues == summaries_last_query <= Len(summaries)

\* ------------------------------------------------------------------ C32

\* C32: when a rollout worker process is started the 'data' and 'stat'
\* handlers are registered, the reply endpoint is initialized and all
\* nr_players processes exist; every worker's request endpoint holds the
\* connection info of the initialized reply endpoint.
C32_RouterReadyBeforeWorkers ==
    /\ \A i \in 1..Len(players) :
        /\ players_router.initialized
        /\ players[i].req # None
        /\ players[i].req = players_router.conn_info
    /\ (\E i \in 1..Len(players) : players[i].started) =>
        /\ {"data", "stat"} \subseteq players_router.handlers
        /\ players_router.initialized
        /\ Len(players) = nr_players

C32_Witness ==
    /\ nr_players >= 2
    /\ Len(players) = nr_players
    /\ players[1].started
    /\ ~players[2].started

\* The insertion counters of a sequence of wrappers, and whether they differ.
Counts(s) == {s[i].count : i \in 1..Len(s)}
DistinctCounts(s) == \A i, j \in 1..Len(s) : i # j => s[i].count # s[j].count

LocksHeldInsideBlocks ==
    /\ data_pool_lock <=> (web_pc = "body" \/ \E t \in PairThreads : tpp_pc[t] = "in_push")
    /\ \A t \in PairThreads :
        pair_mutex = <<t>> <=> tpp_pc[t] \in {"append", "check", "push", "in_push", "clear"}

\* The pool lock is taken by the web thread, which holds nothing else, or by
\* a rollout thread that holds the pair mutex; the pair mutex is taken by a
\* thread that holds no lock.
LockOrderStep ==
    /\ (~data_pool_lock /\ data_pool_lock') =>
        \/ web_pc = "acquire" /\ web_pc' = "body"
        \/ \E t \in PairThreads :
            tpp_pc[t] = "push" /\ tpp_pc'[t] = "in_push" /\ pair_mutex = <<t>>
    /\ (pair_mutex = None /\ pair_mutex' # None) =>
        \E t \in PairThreads : pair_mutex' = <<t>> /\ tpp_pc[t] = "acquire"

\* C36: the pool lock is taken alone (pop) or under the pair mutex (push),
\* never the other way round; both locks are released on every way out of
\* their with blocks, an exception included; and every thread that waits for
\* either lock gets it.
C36_LocksNeverDeadlock ==
    /\ []LocksHeldInsideBlocks
    /\ [][LockOrderStep]_vars
    /\ \A t \in LockThreads :
        /\ (tpp_pc[t] = "acquire") ~> (tpp_pc[t] = "append")
        /\ (tpp_pc[t] = "push") ~> (tpp_pc[t] = "in_push")
    /\ (web_pc = "acquire") ~> (web_pc = "body")

\* After a pop whose _process raised, the web thread has taken the pool lock
\* again and is inside pop.
C36_Witness ==
    /\ lk_raised # {}
    /\ web_pc = "body"
    /\ data_pool_lock

====
